---- MODULE Spec2Model ----
(***************************************************************************)
(* Model of the deet debugger (proj-1/deet): the session dispatcher        *)
(* (debugger.rs), the process controller and breakpoint table              *)
(* (inferior.rs), and the part of the operating system and of the traced   *)
(* program they act on (ptrace, waitpid, a small instruction set).         *)
(* Then parallel_map (week6/parallel_map) with its threads and channels.   *)
(* Then the rate limiting of the load balancer (proj-2/balancebeam).       *)
(***************************************************************************)
EXTENDS Integers, Sequences, FiniteSets, TLC

\* ------------------------------------------------------------------ bounds

\* Run commands (children spawned) per session.
MaxSpawns == 2
\* Length of Debugger.break_point (breakpoint commands that resolve).
MaxBps == 2
\* Largest program argument: the traced program loops `arg` times and exits
\* with code `arg`.
MaxLoop == 2
\* Frames of a backtrace that are kept; a longer walk goes on unrecorded.
MaxFrames == 3
\* Longest input vector of parallel_map.
MaxInput == 3
\* Largest num_threads of parallel_map.
MaxThreads == 2
\* Connections the load balancer accepts.
MaxConns == 2
\* Requests the load balancer reads, over all connections.
MaxReqs == 3
\* Largest max_requests_per_minute.
MaxRate == 2
\* Upstream servers given on the command line.
MaxUpstreams == 2
\* Connections whose handler calls connect_to_upstream.
MaxCalls == 1

\* ----------------------------------------------------- bytes and words

\* size_of::<usize>() on the x86-64 target of the debugger.
WordSize == 8
\* The trap opcode written by insert_breakpoint and by cont's re-arm.
TRAP == 204

None == [kind |-> "None"]

Bytes == 0..255
Offsets == 0..(WordSize - 1)

RECURSIVE BitAnd(_, _, _)
\* x & y on the low n bits (bit by bit, unless one side is all zeros or, for
\* a byte, all ones).
BitAnd(x, y, n) ==
    CASE n = 0 \/ x = 0 \/ y = 0 -> 0
      [] n = 8 /\ x = 255 -> y
      [] n = 8 /\ y = 255 -> x
      [] OTHER -> ((x % 2) * (y % 2)) + 2 * BitAnd(x \div 2, y \div 2, n - 1)

\* A u64 is its eight base-256 digits, least significant first (the layout of
\* the word in the little-endian inferior's memory).
FromU8(v) == [i \in Offsets |-> IF i = 0 THEN v ELSE 0]
AsU8(w) == w[0]
\* w >> 8 * k
Shr8(w, k) == [i \in Offsets |-> IF i + k < WordSize THEN w[i + k] ELSE 0]
\* w << 8 * k, truncated to 64 bits
Shl8(w, k) == [i \in Offsets |-> IF i >= k THEN w[i - k] ELSE 0]
WAnd(a, b) == [i \in Offsets |-> BitAnd(a[i], b[i], 8)]
WOr(a, b) == [i \in Offsets |-> a[i] + b[i] - BitAnd(a[i], b[i], 8)]
WNot(a) == [i \in Offsets |-> 255 - a[i]]

\* addr & (-(size_of::<usize>() as isize) as usize): clears the low three bits.
align_addr_to_word(addr) == addr - (addr % WordSize)

\* ------------------------------------------------- the traced program

\* The instruction set of the traced program, one byte per instruction.
Op == [nop |-> 144, loop |-> 226, ret |-> 195, hlt |-> 244, kill |-> 15]

\* The inferior's address space: two mapped words; every address from MemSize
\* on is unmapped.
MemSize == 2 * WordSize
Addrs == 0..(MemSize - 1)
Mapped(a) == a \in Addrs
\* The first word can be read but not written: ptrace::write fails on it.
Writable(a) == Mapped(a) /\ a >= WordSize

\* Where the exec stop leaves the instruction pointer (at the loop
\* instruction), where the loop instruction jumps back to (the function f, one
\* instruction long, which falls through to the loop instruction), and the
\* last instruction (main).
Entry == [rip |-> 11, loopTo |-> 10, last |-> 12]

\* The three targets differ in their last instruction: 1 returns from main
\* (exit with code arg), 2 faults (SIGSEGV), 3 kills itself (SIGKILL).
Targets == 1..3
LastOp(t) == CASE t = 1 -> Op.ret [] t = 2 -> Op.hlt [] OTHER -> Op.kill

Image(t) ==
    [a \in Addrs |->
        CASE a \in {8, 9, 10} -> Op.nop
          [] a = 11 -> Op.loop
          [] a = Entry.last -> LastOp(t)
          [] a > Entry.last -> Op.hlt
          [] OTHER -> 0]

DeadProc == [st |-> "dead"]
Live(p) == p.st # "dead"

\* The stack of the targets: frames of two words, the saved frame base and
\* above it the return address.
StackBase == 4 * WordSize
FrameSize == 2 * WordSize
Far == 256 * 256 * 256

\* A frame at address a: the words it puts on the stack.
Frame(a, saved_bp, ret) ==
    [x \in {a, a + WordSize} |-> IF x = a THEN saved_bp ELSE ret]

\* The three frames of target t, at StackBase and the two frames above it.
\* Target 1: a chain that ends in main, and a return address without a
\* function.  Target 2: a frame that is its own caller, and two frames that
\* are each other's.  Target 3: a null frame base, and a frame base that is
\* not mapped.
Frames(t) ==
    LET a0 == StackBase
        a1 == StackBase + FrameSize
        a2 == StackBase + 2 * FrameSize
    IN CASE t = 1 -> <<Frame(a0, 0, Entry.last), Frame(a1, a0, Entry.loopTo),
                       Frame(a2, a1, WordSize)>>
         [] t = 2 -> <<Frame(a0, a2, Entry.loopTo), Frame(a1, a1, Entry.loopTo),
                       Frame(a2, a0, Entry.rip)>>
         [] OTHER -> <<Frame(a0, 0, Entry.last), Frame(a1, 0, Entry.loopTo),
                       Frame(a2, MemSize, Entry.loopTo)>>

StackAddrs == {StackBase + i * WordSize : i \in 0..5}
Stack(t) ==
    [x \in StackAddrs |->
        LET f == CHOOSE i \in 1..3 : x \in DOMAIN Frames(t)[i]
        IN Frames(t)[f][x]]

\* The child right after exec: stopped by SIGTRAP at the entry point.  How
\* deep its stack is depends on its arguments.
FreshProc(t, arg) ==
    [st |-> "stopped", mem |-> Image(t), rip |-> Entry.rip, rcx |-> arg,
     arg |-> arg, sig |-> "SIGTRAP", cause |-> "exec",
     rbp |-> StackBase + FrameSize * arg, stack |-> Stack(t)]

Stop(p, sig, cause) == [p EXCEPT !.sig = sig, !.cause = cause]

\* One instruction of the inferior: [p |-> the process after it, ev |-> what
\* the kernel has to report: "none", "stop", "exited" or "signaled",
\* at |-> <<address, byte>> fetched].
ExecOne(p) ==
    IF ~Mapped(p.rip)
    THEN [p |-> Stop(p, "SIGSEGV", "fault"), ev |-> "stop", at |-> <<p.rip, 0>>]
    ELSE LET b == p.mem[p.rip]
             at == <<p.rip, b>>
         IN CASE b = TRAP ->
                   [p |-> Stop([p EXCEPT !.rip = p.rip + 1], "SIGTRAP", "trap"),
                    ev |-> "stop", at |-> at]
              [] b = Op.nop ->
                   [p |-> [p EXCEPT !.rip = p.rip + 1], ev |-> "none", at |-> at]
              [] b = Op.loop ->
                   [p |-> IF p.rcx > 0
                          THEN [p EXCEPT !.rip = Entry.loopTo, !.rcx = p.rcx - 1]
                          ELSE [p EXCEPT !.rip = p.rip + 1],
                    ev |-> "none", at |-> at]
              [] b = Op.ret ->
                   [p |-> [p EXCEPT !.st = "exited"], ev |-> "exited", at |-> at]
              [] b = Op.kill ->
                   [p |-> [p EXCEPT !.st = "signaled", !.sig = "SIGKILL"],
                    ev |-> "signaled", at |-> at]
              [] b = Op.hlt ->
                   [p |-> Stop(p, "SIGSEGV", "fault"), ev |-> "stop", at |-> at]
              [] OTHER ->
                   [p |-> Stop(p, "SIGILL", "fault"), ev |-> "stop", at |-> at]

\* PTRACE_SINGLESTEP: one instruction, then a SIGTRAP stop unless the
\* instruction itself stopped or ended the process.
SingleStep(p) ==
    LET r == ExecOne(p)
    IN IF r.ev = "none"
       THEN [p |-> Stop(r.p, "SIGTRAP", "step"), ev |-> "stop", exec |-> <<r.at>>]
       ELSE [p |-> r.p, ev |-> r.ev, exec |-> <<r.at>>]

RECURSIVE RunOn(_, _)
\* PTRACE_CONT: instructions until one stops or ends the process.  Every loop
\* of the program counts rcx down, so the run ends.
RunOn(p, exec) ==
    LET r == ExecOne(p)
    IN IF r.ev = "none"
       THEN RunOn(r.p, Append(exec, r.at))
       ELSE [p |-> r.p, ev |-> r.ev, exec |-> Append(exec, r.at)]

Resume(p) == RunOn(p, <<>>)

\* waitpid's result for process p.
OsWait(p) ==
    CASE p.st = "stopped" -> [kind |-> "Stopped", sig |-> p.sig]
      [] p.st = "exited" -> [kind |-> "Exited", code |-> p.arg]
      [] p.st = "signaled" -> [kind |-> "Signaled", sig |-> p.sig]

\* wait reporting every exit as a success.
wait_ZeroCode(ws, regs_rip) ==
    CASE ws.kind = "Exited" -> [kind |-> "Exited", code |-> 0]
      [] ws.kind = "Signaled" -> [kind |-> "Signaled", sig |-> ws.sig]
      [] ws.kind = "Stopped" -> [kind |-> "Stopped", sig |-> ws.sig, rip |-> regs_rip]
      [] OTHER -> [kind |-> "panic"]

\* wait taking every result it does not know for a stop.
wait_OtherIsStop(ws, regs_rip) ==
    CASE ws.kind = "Exited" -> [kind |-> "Exited", code |-> ws.code]
      [] ws.kind = "Signaled" -> [kind |-> "Signaled", sig |-> ws.sig]
      [] OTHER -> [kind |-> "Stopped", sig |-> "SIGTRAP", rip |-> regs_rip]

\* Inferior::wait: the translation of waitpid's result ws; regs_rip is what
\* getregs gives for a stopped process.  [kind |-> "panic"] is the panic.
wait(ws, regs_rip) ==
    CASE ws.kind = "Exited" -> [kind |-> "Exited", code |-> ws.code]
      [] ws.kind = "Signaled" -> [kind |-> "Signaled", sig |-> ws.sig]
      [] ws.kind = "Stopped" -> [kind |-> "Stopped", sig |-> ws.sig, rip |-> regs_rip]
      [] OTHER -> [kind |-> "panic"]

\* Inferior::wait on process p.
WaitStatus(p) == wait(OsWait(p), p.rip)

\* The process once waitpid has returned: an ended process has been reaped.
Reaped(p) == IF p.st = "stopped" THEN p ELSE DeadProc

\* The trace requests Inferior::wait issues: waitpid, and getregs on a stop.
WaitOps(p) == IF p.st = "stopped" THEN <<<<"wait">>, <<"getregs">>>> ELSE <<<<"wait">>>>

\* --------------------------------------------------- breakpoint table

\* ptrace::read of the word at an aligned address.
ReadWord(mem, aligned) == [i \in Offsets |-> mem[aligned + i]]

\* A word read from memory as usize.  The model's addresses are small: a word
\* with a byte set beyond the third is an address far from anything mapped.
ToUsize(w) ==
    IF \E i \in 3..(WordSize - 1) : w[i] # 0
    THEN Far
    ELSE w[0] + 256 * w[1] + 256 * 256 * w[2]

\* ptrace::read(addr) as usize on process p: [ok, val].
Peek(p, addr) ==
    CASE addr \in DOMAIN p.stack -> [ok |-> TRUE, val |-> p.stack[addr]]
      [] Mapped(addr) /\ Mapped(addr + WordSize - 1) ->
           [ok |-> TRUE, val |-> ToUsize(ReadWord(p.mem, addr))]
      [] OTHER -> [ok |-> FALSE, val |-> 0]

\* write_byte without the mask: the new byte is or-ed onto the old one.
write_byte_NoMask(mem, addr, val) ==
    LET aligned_addr == align_addr_to_word(addr)
        byte_offset == addr - aligned_addr
    IN IF ~Mapped(aligned_addr)
       THEN [ok |-> FALSE, mem |-> mem, orig |-> 0,
             ops |-> <<<<"peek", aligned_addr>>>>]
       ELSE LET word == ReadWord(mem, aligned_addr)
                orig_byte == WAnd(Shr8(word, byte_offset), FromU8(255))
                updated_word == WOr(word, Shl8(FromU8(val), byte_offset))
            IN [ok |-> TRUE,
                mem |-> [a \in Addrs |->
                           IF a >= aligned_addr /\ a < aligned_addr + WordSize
                           THEN updated_word[a - aligned_addr] ELSE mem[a]],
                orig |-> AsU8(orig_byte),
                ops |-> <<<<"peek", aligned_addr>>,
                          <<"poke", aligned_addr, updated_word>>>>]

\* write_byte writing a word that holds the new byte and nothing else.
write_byte_WholeWord(mem, addr, val) ==
    LET aligned_addr == align_addr_to_word(addr)
        byte_offset == addr - aligned_addr
    IN IF ~Mapped(aligned_addr)
       THEN [ok |-> FALSE, mem |-> mem, orig |-> 0,
             ops |-> <<<<"peek", aligned_addr>>>>]
       ELSE LET word == ReadWord(mem, aligned_addr)
                orig_byte == WAnd(Shr8(word, byte_offset), FromU8(255))
                updated_word == Shl8(FromU8(val), byte_offset)
            IN IF ~Writable(aligned_addr)
               THEN [ok |-> FALSE, mem |-> mem, orig |-> 0,
                     ops |-> <<<<"peek", aligned_addr>>,
                               <<"poke", aligned_addr, updated_word>>>>]
               ELSE [ok |-> TRUE,
                     mem |-> [a \in Addrs |->
                                IF a >= aligned_addr /\ a < aligned_addr + WordSize
                                THEN updated_word[a - aligned_addr] ELSE mem[a]],
                     orig |-> AsU8(orig_byte),
                     ops |-> <<<<"peek", aligned_addr>>,
                               <<"poke", aligned_addr, updated_word>>>>]

\* Inferior::write_byte on memory mem: [ok, mem, orig, ops].  The read fails
\* on an unmapped word and nothing is written then.
write_byte(mem, addr, val) ==
    LET aligned_addr == align_addr_to_word(addr)
        byte_offset == addr - aligned_addr
    IN IF ~Mapped(aligned_addr)
       THEN [ok |-> FALSE, mem |-> mem, orig |-> 0,
             ops |-> <<<<"peek", aligned_addr>>>>]
       ELSE LET word == ReadWord(mem, aligned_addr)
                orig_byte == WAnd(Shr8(word, byte_offset), FromU8(255))
                masked_word == WAnd(word, WNot(Shl8(FromU8(255), byte_offset)))
                updated_word == WOr(masked_word, Shl8(FromU8(val), byte_offset))
            IN IF ~Writable(aligned_addr)
               THEN [ok |-> FALSE, mem |-> mem, orig |-> 0,
                     ops |-> <<<<"peek", aligned_addr>>,
                               <<"poke", aligned_addr, updated_word>>>>]
               ELSE [ok |-> TRUE,
                     mem |-> [a \in Addrs |->
                                IF a >= aligned_addr /\ a < aligned_addr + WordSize
                                THEN updated_word[a - aligned_addr] ELSE mem[a]],
                     orig |-> AsU8(orig_byte),
                     ops |-> <<<<"peek", aligned_addr>>,
                               <<"poke", aligned_addr, updated_word>>>>]

Tracked(inf, addr) == addr \in DOMAIN inf.breakpoints

\* HashMap::insert
MapInsert(m, k, v) == [x \in DOMAIN m \cup {k} |-> IF x = k THEN v ELSE m[x]]

\* insert_breakpoint without the contains_key test: a tracked address is
\* patched and recorded again.
insert_breakpoint_NoCheck(inf, mem, addr) ==
    LET w == write_byte(mem, addr, TRAP)
    IN IF ~w.ok
       THEN [ok |-> FALSE, inf |-> inf, mem |-> mem, ops |-> w.ops]
       ELSE [ok |-> TRUE,
             inf |-> [inf EXCEPT !.breakpoints =
                        MapInsert(@, addr, [addr |-> addr, orig_byte |-> w.orig])],
             mem |-> w.mem, ops |-> w.ops]

\* insert_breakpoint putting the entry into the table before the write.
insert_breakpoint_RecordsFirst(inf, mem, addr) ==
    IF Tracked(inf, addr)
    THEN [ok |-> TRUE, inf |-> inf, mem |-> mem, ops |-> <<>>]
    ELSE LET w == write_byte(mem, addr, TRAP)
         IN [ok |-> w.ok,
             inf |-> [inf EXCEPT !.breakpoints =
                        MapInsert(@, addr, [addr |-> addr, orig_byte |-> w.orig])],
             mem |-> w.mem, ops |-> w.ops]

\* Inferior::insert_breakpoint on inferior inf with memory mem:
\* [ok, inf, mem, ops].
insert_breakpoint(inf, mem, addr) ==
    IF Tracked(inf, addr)
    THEN [ok |-> TRUE, inf |-> inf, mem |-> mem, ops |-> <<>>]
    ELSE LET w == write_byte(mem, addr, TRAP)
         IN IF ~w.ok
            THEN [ok |-> FALSE, inf |-> inf, mem |-> mem, ops |-> w.ops]
            ELSE [ok |-> TRUE,
                  inf |-> [inf EXCEPT !.breakpoints =
                             MapInsert(@, addr, [addr |-> addr, orig_byte |-> w.orig])],
                  mem |-> w.mem, ops |-> w.ops]

\* The loop of Inferior::new leaving after its first iteration.
InsertAll_FirstOnly(inf, mem, breakpoints, i, ops) ==
    IF i > Len(breakpoints)
    THEN [ok |-> TRUE, inf |-> inf, mem |-> mem, ops |-> ops]
    ELSE LET r == insert_breakpoint(inf, mem, breakpoints[i])
         IN [ok |-> r.ok, inf |-> r.inf, mem |-> r.mem, ops |-> ops \o r.ops]

RECURSIVE InsertAll(_, _, _, _, _)
\* The loop of Inferior::new over the configured addresses, from index i; it
\* stops at the first insertion that fails.
InsertAll(inf, mem, breakpoints, i, ops) ==
    IF i > Len(breakpoints)
    THEN [ok |-> TRUE, inf |-> inf, mem |-> mem, ops |-> ops]
    ELSE LET r == insert_breakpoint(inf, mem, breakpoints[i])
         IN IF ~r.ok
            THEN [ok |-> FALSE, inf |-> r.inf, mem |-> r.mem, ops |-> ops \o r.ops]
            ELSE InsertAll(r.inf, r.mem, breakpoints, i + 1, ops \o r.ops)

\* What the operating system can make of the spawn: the exec fails (no child
\* exists), the child stops at exec with SIGTRAP, it stops with another signal
\* first, or it is killed before it stops.
SpawnOutcomes == {"execfail", "trap", "othersig", "exited", "killed"}

\* The child as the first wait finds it.
SpawnedProc(t, arg, first) ==
    CASE first = "trap" -> FreshProc(t, arg)
      [] first = "othersig" -> Stop(FreshProc(t, arg), "SIGSTOP", "signal")
      [] first = "exited" -> [FreshProc(t, arg) EXCEPT !.st = "exited"]
      [] OTHER -> [FreshProc(t, arg) EXCEPT !.st = "signaled", !.sig = "SIGKILL"]

\* A child whose Inferior has been dropped: nothing holds its pid any more, so
\* all that is kept of it is whether it is still there.
Orphan(p) == IF Live(p) THEN [st |-> "stopped"] ELSE DeadProc

\* Inferior::new taking any stop of the child for the stop after exec.
InferiorNew_AnyStop(t, arg, breakpoints, first, pid) ==
    IF first = "execfail"
    THEN [created |-> FALSE, proc |-> DeadProc, inf |-> None, ops |-> <<<<"spawn">>>>]
    ELSE LET child == SpawnedProc(t, arg, first)
             result == WaitStatus(child)
             ops == <<<<"spawn">>>> \o WaitOps(child)
             inferior0 == [kind |-> "Inferior", child |-> pid, breakpoints |-> <<>>]
         IN IF result.kind = "Stopped"
            THEN LET r == InsertAll(inferior0, child.mem, breakpoints, 1, ops)
                 IN IF r.ok
                    THEN [created |-> TRUE, proc |-> [child EXCEPT !.mem = r.mem],
                          inf |-> r.inf, ops |-> r.ops]
                    ELSE [created |-> TRUE, proc |-> Orphan(child), inf |-> None,
                          ops |-> r.ops]
            ELSE [created |-> TRUE, proc |-> Orphan(Reaped(child)), inf |-> None,
                  ops |-> ops]

\* Inferior::new: [created, proc, inf, ops]; inf is None when it returns None.
\* Dropping the Inferior (and its Child) on the way out neither kills nor
\* reaps the child.
InferiorNew(t, arg, breakpoints, first, pid) ==
    IF first = "execfail"
    THEN [created |-> FALSE, proc |-> DeadProc, inf |-> None, ops |-> <<<<"spawn">>>>]
    ELSE LET child == SpawnedProc(t, arg, first)
             result == WaitStatus(child)
             ops == <<<<"spawn">>>> \o WaitOps(child)
             inferior0 == [kind |-> "Inferior", child |-> pid, breakpoints |-> <<>>]
         IN IF result.kind = "Stopped" /\ result.sig = "SIGTRAP"
            THEN LET r == InsertAll(inferior0, child.mem, breakpoints, 1, ops)
                 IN IF r.ok
                    THEN [created |-> TRUE, proc |-> [child EXCEPT !.mem = r.mem],
                          inf |-> r.inf, ops |-> r.ops]
                    ELSE [created |-> TRUE, proc |-> Orphan(child), inf |-> None,
                          ops |-> r.ops]
            ELSE [created |-> TRUE, proc |-> Orphan(Reaped(child)), inf |-> None,
                  ops |-> ops]

\* ------------------------------------------------ breakpoint specs

\* The value of a digit character in base 16 (from_str_radix takes both cases).
HexVal ==
    [c \in {"0", "1", "3", "9", "a", "c", "C", "f"} |->
        CASE c = "0" -> 0 [] c = "1" -> 1 [] c = "3" -> 3
          [] c = "9" -> 9 [] c = "a" -> 10 [] c \in {"c", "C"} -> 12 [] OTHER -> 15]
DecDigits == {"0", "1", "3", "9"}

RECURSIVE Digits(_, _, _)
\* The number a digit string denotes in base `radix`, most significant first.
Digits(s, radix, acc) ==
    IF s = <<>> THEN acc ELSE Digits(Tail(s), radix, acc * radix + HexVal[Head(s)])

\* usize::from_str_radix(s, 16).ok()
FromStrRadix16(s) ==
    IF s # <<>> /\ \A i \in 1..Len(s) : s[i] \in DOMAIN HexVal
    THEN [kind |-> "Some", val |-> Digits(s, 16, 0)] ELSE None

\* str::parse::<usize>()
ParseUsize(s) ==
    IF s # <<>> /\ \A i \in 1..Len(s) : s[i] \in DecDigits
    THEN [kind |-> "Some", val |-> Digits(s, 10, 0)] ELSE None

\* Debugger::parse_address
parse_address(addr) ==
    LET addr_without_0x ==
            IF Len(addr) >= 2 /\ addr[1] = "0" /\ addr[2] \in {"x", "X"}
            THEN SubSeq(addr, 3, Len(addr)) ELSE addr
    IN FromStrRadix16(addr_without_0x)

\* DwarfData::get_addr_for_line(None, line) of the targets' symbol data.
get_addr_for_line(line) ==
    CASE line = 3 -> [kind |-> "Some", val |-> Entry.loopTo]
      [] line = 5 -> [kind |-> "Some", val |-> Entry.last]
      [] OTHER -> None

\* DwarfData::get_addr_for_function(None, name) of the targets' symbol data.
get_addr_for_function(name) ==
    CASE name = <<"f">> -> [kind |-> "Some", val |-> Entry.loopTo]
      [] name = <<"m", "a", "i", "n">> -> [kind |-> "Some", val |-> Entry.last]
      [] OTHER -> None

MainName == <<"m", "a", "i", "n">>

\* DwarfData::get_line_from_addr of the targets' symbol data.
get_line_from_addr(addr) ==
    CASE addr \in {Entry.loopTo, Entry.rip} -> [kind |-> "Some", number |-> 3]
      [] addr \in {Entry.last, Entry.last + 1} -> [kind |-> "Some", number |-> 5]
      [] addr = WordSize -> [kind |-> "Some", number |-> 2]
      [] OTHER -> None

\* DwarfData::get_function_from_addr of the targets' symbol data.
get_function_from_addr(addr) ==
    CASE addr \in {Entry.loopTo, Entry.rip} -> [kind |-> "Some", name |-> <<"f">>]
      [] addr \in {Entry.last, Entry.last + 1} -> [kind |-> "Some", name |-> MainName]
      [] OTHER -> None

\* The resolution taking every argument for a raw address first, with or
\* without the star.
ResolveSpec_HexAnywhere(breakpoint) ==
    LET raw == parse_address(IF breakpoint # <<>> /\ breakpoint[1] = "*"
                             THEN Tail(breakpoint) ELSE breakpoint)
        num == ParseUsize(breakpoint)
    IN IF raw # None THEN raw
       ELSE IF num.kind = "Some" THEN get_addr_for_line(num.val)
       ELSE get_addr_for_function(breakpoint)

\* The Breakpoint arm's resolution of its argument to an address.
ResolveSpec(breakpoint) ==
    IF breakpoint # <<>> /\ breakpoint[1] = "*"
    THEN parse_address(Tail(breakpoint))
    ELSE LET num == ParseUsize(breakpoint)
         IN IF num.kind = "Some"
            THEN get_addr_for_line(num.val)
            ELSE get_addr_for_function(breakpoint)

\* The arguments of the breakpoint command the model draws from.
BreakSpecs ==
    { <<"*", "a">>, <<"*", "0", "x", "a">>, <<"*", "0", "X", "C">>,
      <<"*", "1", "0">>, <<"*", "1">>, <<"3">>, <<"9">>, <<"f">>, <<"m", "a", "i", "n">>,
      <<"*", "g">>, <<"g">> }

\* ------------------------------------------------------------ state

VARIABLES
    pc,           \* where the debugger's only thread is
    cmd,          \* the command get_next_command returned
    target,       \* Debugger.target: which program is debugged
    inferior,     \* Debugger.inferior: None or the Inferior
    break_point,  \* Debugger.break_point
    procs,        \* the operating system: every child by pid
    nextPid,      \* the pid the next spawned child gets
    newInf,       \* Run arm: what Inferior::new returned
    rip,          \* Inferior::cont: its local `rip`
    status,       \* the Status the last wait of the command returned
    stepSt,       \* Inferior::cont: the Status of the wait after its single step
    out,          \* the last diagnostic printed
    ops,          \* the trace requests issued since the command began, or
                  \* since Inferior::cont began once it has
    exec,         \* <<address, byte>> of each instruction the inferior ran
                  \* since the command began
    stop0,        \* how the inferior was stopped when cont began
    resolved,     \* every address a breakpoint spec has resolved to
    bt            \* print_backtrace: its instruction_ptr and base_ptr, and
                  \* the frames it has printed, each with the two it was
                  \* printed for

\* parallel_map
VARIABLES
    mpc,          \* where the thread that called parallel_map is
    input,        \* the input vector as it was passed
    num_threads,  \* the argument num_threads
    input_vec,    \* what is left of the input vector
    to_chan,      \* the channel to the workers: what was sent and not received
    to_open,      \* whether sender_to is still there
    back_chan,    \* the channel back: what was sent and not received
    back_senders, \* how many senders of the channel back are still there
    workers,      \* each worker thread: where it is, and the Resul it holds
    handlers,     \* how many threads have been spawned
    joined,       \* how many of them have been joined
    recvs,        \* the indices received so far, in the order of output_vec
    output_vec,   \* the output vector
    ran           \* for each index, the workers that applied f to its element

debuggerVars ==
    <<pc, cmd, target, inferior, break_point, procs, nextPid, newInf, rip,
      status, stepSt, out, ops, exec, stop0, resolved, bt>>

mapVars ==
    <<mpc, input, num_threads, input_vec, to_chan, to_open, back_chan,
      back_senders, workers, handlers, joined, recvs, output_vec, ran>>

\* balancebeam
VARIABLES
    max_requests_per_minute,  \* ProxyState.max_requests_per_minute
    hashmap,      \* main's hashmap: for each client IP seen, its counter
    conns,        \* the connections accepted: the client's IP, and where
                  \* its handle_connection is
    requests,     \* how many requests have been read, over all connections
    clearing,     \* intimeclear: whether it holds the write lock of the
                  \* hashmap, and the entries it has still to reset
    admitted,     \* per IP, the requests that passed the limit since the
                  \* counter was last reset
    forwarded     \* per IP, the requests written to an upstream since the
                  \* counter was last reset

lbVars ==
    <<max_requests_per_minute, hashmap, conns, requests, clearing, admitted,
      forwarded>>

\* balancebeam: the upstream servers
VARIABLES
    upstream_addresses,  \* ProxyState.upstream_addresses: the address of each
                         \* upstream and whether it is marked alive
    calls,        \* the handlers' calls of connect_to_upstream: where each
                  \* is, with its locals
    health        \* active_check_intime: asleep, or about to write what it
                  \* found

upVars == <<upstream_addresses, calls, health>>

vars == <<debuggerVars, mapVars, lbVars, upVars>>

\* No upstream server is configured and nothing connects to one.
UpOff ==
    /\ upstream_addresses = <<>>
    /\ calls = <<>>
    /\ health = [at |-> "off", invalidip |-> {}, validip |-> {}]

\* The load balancer is not running.
LbOff ==
    /\ max_requests_per_minute = 0
    /\ hashmap = <<>>
    /\ conns = <<>>
    /\ requests = 0
    /\ clearing = [held |-> FALSE, left |-> {}]
    /\ admitted = <<>>
    /\ forwarded = <<>>

\* parallel_map is not running.
MapOff ==
    /\ mpc = "off"
    /\ input = <<>>
    /\ num_threads = 0
    /\ input_vec = <<>>
    /\ to_chan = <<>>
    /\ to_open = FALSE
    /\ back_chan = <<>>
    /\ back_senders = 0
    /\ workers = <<>>
    /\ handlers = 0
    /\ joined = 0
    /\ recvs = <<>>
    /\ output_vec = <<>>
    /\ ran = <<>>

Pids == 1..MaxSpawns
Args == 0..MaxLoop

AliveChildren == {pid \in Pids : Live(procs[pid])}
Range(s) == {s[i] : i \in DOMAIN s}

Init ==
    /\ pc = "prompt"
    /\ cmd = None
    /\ target \in Targets
    /\ inferior = None
    /\ break_point = <<>>
    /\ procs = [pid \in Pids |-> DeadProc]
    /\ nextPid = 1
    /\ newInf = None
    /\ rip = 0
    /\ status = None
    /\ stepSt = None
    /\ out = ""
    /\ ops = <<>>
    /\ exec = <<>>
    /\ stop0 = None
    /\ resolved = {}
    /\ bt = None
    /\ MapOff
    /\ LbOff
    /\ UpOff

\* Inferior::kill: SIGKILL, then reap.  Signalling a child that no longer
\* exists is an error, and kill panics on it.
KillOk(p) == Live(p)
KillOps == <<<<"kill">>, <<"reap">>>>

\* ----------------------------------------------------------- run

\* The Run arm up to the return of Inferior::new.
CmdRun(arg, first) ==
    /\ pc = "prompt"
    /\ nextPid <= MaxSpawns
    /\ LET r == InferiorNew(target, arg, break_point, first, nextPid)
       IN /\ procs' = IF r.created THEN [procs EXCEPT ![nextPid] = r.proc] ELSE procs
          /\ nextPid' = IF r.created THEN nextPid + 1 ELSE nextPid
          /\ newInf' = r.inf
          /\ ops' = r.ops
    /\ pc' = "run_spawned"
    /\ cmd' = [kind |-> "Run", arg |-> arg, first |-> first]
    /\ UNCHANGED <<upVars, mapVars, lbVars, bt, target, inferior, break_point, rip, status, out, exec, stop0,
                   resolved, stepSt>>

\* Inferior::new returned Some: kill the old inferior, keep the new one, and
\* go on into contin.
RunInstall ==
    /\ pc = "run_spawned"
    /\ newInf # None
    /\ IF inferior # None /\ ~KillOk(procs[inferior.child])
       THEN /\ pc' = "panicked"
            /\ ops' = ops \o <<<<"kill">>>>
            /\ UNCHANGED <<inferior, procs, newInf>>
       ELSE /\ procs' = IF inferior # None
                        THEN [procs EXCEPT ![inferior.child] = DeadProc] ELSE procs
            /\ ops' = IF inferior # None THEN ops \o KillOps ELSE ops
            /\ inferior' = newInf
            /\ newInf' = None
            /\ pc' = "contin"
    /\ UNCHANGED <<upVars, mapVars, lbVars, bt, target, break_point, nextPid, rip, status, out, exec, stop0,
                   resolved, cmd, stepSt>>

\* Inferior::new returned None.
RunFail ==
    /\ pc = "run_spawned"
    /\ newInf = None
    /\ out' = "Error starting subprocess"
    /\ pc' = "loop_end"
    /\ UNCHANGED <<upVars, mapVars, lbVars, bt, target, inferior, break_point, procs, nextPid, newInf, rip,
                   status, ops, exec, stop0, resolved, cmd, stepSt>>

\* -------------------------------------------------------- continue

Child == procs[inferior.child]
BpAt(addr) == inferior.breakpoints[addr]

\* The Contin arm.
CmdContin ==
    /\ pc = "prompt"
    /\ pc' = "contin"
    /\ cmd' = [kind |-> "Contin"]
    /\ UNCHANGED <<upVars, mapVars, lbVars, bt, target, inferior, break_point, procs, nextPid, newInf, rip,
                   status, out, ops, exec, stop0, resolved, stepSt>>

\* contin unwrapping an inferior that is not there.
ContinNoChild_Unwraps ==
    /\ pc = "contin"
    /\ inferior = None
    /\ out' = "unwrap on None"
    /\ pc' = "panicked"
    /\ UNCHANGED <<upVars, mapVars, lbVars, bt, target, inferior, break_point, procs, nextPid, newInf, rip,
                   status, ops, exec, stop0, resolved, cmd, stepSt>>

\* Debugger::contin without an inferior.
ContinNoChild ==
    /\ pc = "contin"
    /\ inferior = None
    /\ out' = "No child process now"
    /\ pc' = "loop_end"
    /\ UNCHANGED <<upVars, mapVars, lbVars, bt, target, inferior, break_point, procs, nextPid, newInf, rip,
                   status, ops, exec, stop0, resolved, cmd, stepSt>>

\* Inferior::cont: getregs, and the test whether rip - 1 is tracked.
ContGetregs ==
    /\ pc = "contin"
    /\ inferior # None
    /\ rip' = Child.rip
    /\ ops' = <<<<"getregs">>>>
    /\ exec' = <<>>
    /\ stop0' = [cause |-> Child.cause, sig |-> Child.sig, rip |-> Child.rip]
    /\ pc' = IF Tracked(inferior, Child.rip - 1) THEN "cont_restore" ELSE "cont_resume"
    /\ UNCHANGED <<upVars, mapVars, lbVars, bt, target, inferior, break_point, procs, nextPid, newInf, status,
                   out, resolved, cmd, stepSt>>

\* Inferior::cont: the original byte is written back.  An error returned by
\* write_byte makes contin's expect panic.
ContRestore ==
    /\ pc = "cont_restore"
    /\ LET w == write_byte(Child.mem, BpAt(rip - 1).addr, BpAt(rip - 1).orig_byte)
       IN /\ ops' = ops \o w.ops
          /\ procs' = [procs EXCEPT ![inferior.child].mem = w.mem]
          /\ pc' = IF w.ok THEN "cont_setregs" ELSE "panicked"
    /\ UNCHANGED <<upVars, mapVars, lbVars, bt, target, inferior, break_point, nextPid, newInf, rip, status,
                   out, exec, stop0, resolved, cmd, stepSt>>

\* cont writing the registers back without the decrement.
Rewound_Not(r) == r

\* The instruction pointer cont writes back: regs.rip -= 1.
Rewound(r) == r - 1

\* Inferior::cont: setregs with the instruction pointer moved back.
ContSetregs ==
    /\ pc = "cont_setregs"
    /\ procs' = [procs EXCEPT ![inferior.child].rip = Rewound(rip)]
    /\ ops' = Append(ops, <<"setregs", Rewound(rip)>>)
    /\ pc' = "cont_step"
    /\ UNCHANGED <<upVars, mapVars, lbVars, bt, target, inferior, break_point, nextPid, newInf, rip, status,
                   out, exec, stop0, resolved, cmd, stepSt>>

\* cont never writing the trap opcode again after the step.
AfterStep_NoRearm(st) ==
    IF st.kind = "Stopped" THEN "cont_resume" ELSE "cont_ret"

\* Where cont goes after the wait that follows the single step.
AfterStep(st) ==
    IF st.kind = "Stopped"
    THEN IF st.sig = "SIGTRAP" THEN "cont_rearm" ELSE "cont_resume"
    ELSE "cont_ret"

\* Inferior::cont: the single step and the wait for it.
ContStep ==
    /\ pc = "cont_step"
    /\ LET r == SingleStep(Child)
       IN /\ procs' = [procs EXCEPT ![inferior.child] = Reaped(r.p)]
          /\ status' = WaitStatus(r.p)
          /\ ops' = ops \o <<<<"step">>>> \o WaitOps(r.p)
          /\ exec' = exec \o r.exec
          /\ pc' = AfterStep(WaitStatus(r.p))
    /\ stepSt' = WaitStatus(SingleStep(Child).p)
    /\ UNCHANGED <<upVars, mapVars, lbVars, bt, target, inferior, break_point, nextPid, newInf, rip, out,
                   stop0, resolved, cmd>>

\* Inferior::cont: the trap opcode is written again.
ContRearm ==
    /\ pc = "cont_rearm"
    /\ LET w == write_byte(Child.mem, BpAt(rip - 1).addr, TRAP)
       IN /\ ops' = ops \o w.ops
          /\ procs' = [procs EXCEPT ![inferior.child].mem = w.mem]
          /\ pc' = IF w.ok THEN "cont_resume" ELSE "panicked"
    /\ UNCHANGED <<upVars, mapVars, lbVars, bt, target, inferior, break_point, nextPid, newInf, rip, status,
                   out, exec, stop0, resolved, cmd, stepSt>>

\* Inferior::cont: ptrace::cont and the wait for the next stop.
ContResume ==
    /\ pc = "cont_resume"
    /\ LET r == Resume(Child)
       IN /\ procs' = [procs EXCEPT ![inferior.child] = Reaped(r.p)]
          /\ status' = WaitStatus(r.p)
          /\ ops' = ops \o <<<<"cont">>>> \o WaitOps(r.p)
          /\ exec' = exec \o r.exec
    /\ pc' = "cont_ret"
    /\ UNCHANGED <<upVars, mapVars, lbVars, bt, target, inferior, break_point, nextPid, newInf, rip, out,
                   stop0, resolved, cmd, stepSt>>

\* Inferior::cont: one of its requests (getregs, read, write, setregs, step,
\* cont, waitpid) comes back with an error although the child is there; `?`
\* hands the error to contin, whose expect panics.  Nothing is done about the
\* inferior on the way out.
ContFault ==
    /\ pc \in {"contin", "cont_restore", "cont_setregs", "cont_step", "cont_rearm",
               "cont_resume"}
    /\ inferior # None
    /\ out' = "Error continuing inferior"
    /\ pc' = "panicked"
    /\ UNCHANGED <<upVars, mapVars, lbVars, bt, target, inferior, break_point, procs, nextPid, newInf, rip,
                   status, ops, exec, stop0, resolved, cmd, stepSt>>

\* contin forgetting the inferior only when a signal ended it.
ContinReport_KeepsExited ==
    /\ pc = "cont_ret"
    /\ out' = CASE status.kind = "Stopped" -> "Child stopped"
                [] status.kind = "Exited" -> "Child exited (status)"
                [] OTHER -> "Child exited (signal)"
    /\ inferior' = IF status.kind = "Signaled" THEN None ELSE inferior
    /\ pc' = "loop_end"
    /\ UNCHANGED <<upVars, mapVars, lbVars, bt, target, break_point, procs, nextPid, newInf, rip, status, ops,
                   exec, stop0, resolved, cmd, stepSt>>

\* Debugger::contin: what it does with the Status cont returned.
ContinReport ==
    /\ pc = "cont_ret"
    /\ out' = CASE status.kind = "Stopped" -> "Child stopped"
                [] status.kind = "Exited" -> "Child exited (status)"
                [] OTHER -> "Child exited (signal)"
    /\ inferior' = IF status.kind = "Stopped" THEN inferior ELSE None
    /\ pc' = "loop_end"
    /\ UNCHANGED <<upVars, mapVars, lbVars, bt, target, break_point, procs, nextPid, newInf, rip, status, ops,
                   exec, stop0, resolved, cmd, stepSt>>

\* ------------------------------------ backtrace, breakpoint, quit

\* The Backtrace arm up to the loop of print_backtrace: without inferior the
\* message, with one getregs and the two locals of the walk.
CmdBacktrace ==
    /\ pc = "prompt"
    /\ IF inferior = None
       THEN /\ out' = "No child process now"
            /\ pc' = "loop_end"
            /\ UNCHANGED <<ops, bt>>
       ELSE /\ ops' = <<<<"getregs">>>>
            /\ bt' = [instruction_ptr |-> Child.rip, base_ptr |-> Child.rbp,
                      frames |-> <<>>]
            /\ pc' = "bt_resolve"
            /\ UNCHANGED out
    /\ cmd' = [kind |-> "Backtrace"]
    /\ UNCHANGED <<upVars, mapVars, lbVars, target, inferior, break_point, procs, nextPid, newInf, rip,
                   status, exec, stop0, resolved, stepSt>>

\* What the walk has printed is kept up to MaxFrames frames.
Printed(frames, f) == IF Len(frames) < MaxFrames THEN Append(frames, f) ELSE frames

\* print_backtrace printing a frame although the function is not known.
BtResolve_PrintsUnresolved ==
    /\ pc = "bt_resolve"
    /\ LET line == get_line_from_addr(bt.instruction_ptr)
           func == get_function_from_addr(bt.instruction_ptr)
       IN CASE line = None ->
                 /\ out' = "No line information found"
                 /\ pc' = "loop_end"
                 /\ UNCHANGED bt
            [] line # None /\ func = None ->
                 /\ bt' = [bt EXCEPT !.frames =
                             Printed(@, [pc |-> bt.instruction_ptr,
                                         bp |-> bt.base_ptr,
                                         func |-> <<>>, line |-> line.number])]
                 /\ out' = "No function information found"
                 /\ pc' = "loop_end"
            [] OTHER ->
                 /\ bt' = [bt EXCEPT !.frames =
                             Printed(@, [pc |-> bt.instruction_ptr,
                                         bp |-> bt.base_ptr,
                                         func |-> func.name, line |-> line.number])]
                 /\ pc' = IF func.name = MainName THEN "loop_end" ELSE "bt_read"
                 /\ out' = "frame"
    /\ UNCHANGED <<upVars, mapVars, lbVars, target, inferior, break_point, procs, nextPid, newInf, rip,
                   status, exec, stop0, resolved, stepSt, cmd, ops>>

\* print_backtrace, first half of its loop: the line and the function of
\* instruction_ptr are looked up and printed; the walk ends without them, and
\* at main.
BtResolve ==
    /\ pc = "bt_resolve"
    /\ LET line == get_line_from_addr(bt.instruction_ptr)
           func == get_function_from_addr(bt.instruction_ptr)
       IN CASE line = None ->
                 /\ out' = "No line information found"
                 /\ pc' = "loop_end"
                 /\ UNCHANGED bt
            [] line # None /\ func = None ->
                 /\ out' = "No function information found"
                 /\ pc' = "loop_end"
                 /\ UNCHANGED bt
            [] OTHER ->
                 /\ bt' = [bt EXCEPT !.frames =
                             Printed(@, [pc |-> bt.instruction_ptr,
                                         bp |-> bt.base_ptr,
                                         func |-> func.name, line |-> line.number])]
                 /\ pc' = IF func.name = MainName THEN "loop_end" ELSE "bt_read"
                 /\ out' = "frame"
    /\ UNCHANGED <<upVars, mapVars, lbVars, target, inferior, break_point, procs, nextPid, newInf, rip,
                   status, exec, stop0, resolved, stepSt, cmd, ops>>

\* A failed read of the walk taken for the end of the inferior.
BtRead_DropsInferior ==
    /\ pc = "bt_read"
    /\ LET ret == Peek(Child, bt.base_ptr + WordSize)
           saved == Peek(Child, bt.base_ptr)
       IN /\ ops' = IF Len(bt.frames) < MaxFrames
                     THEN ops \o <<<<"peek", bt.base_ptr + WordSize>>>>
                              \o (IF ret.ok THEN <<<<"peek", bt.base_ptr>>>> ELSE <<>>)
                     ELSE ops
          /\ IF ret.ok /\ saved.ok
             THEN /\ bt' = [bt EXCEPT !.instruction_ptr = ret.val,
                                      !.base_ptr = saved.val]
                  /\ pc' = "bt_resolve"
                  /\ UNCHANGED <<out, inferior>>
             ELSE /\ pc' = "loop_end"
                  /\ out' = "read error"
                  /\ inferior' = None
                  /\ UNCHANGED bt
    /\ UNCHANGED <<upVars, mapVars, lbVars, target, break_point, procs, nextPid, newInf, rip,
                   status, exec, stop0, resolved, stepSt, cmd>>

\* The walk taking the saved frame base for the return address and the
\* return address for the frame base.
BtRead_Swapped ==
    /\ pc = "bt_read"
    /\ LET ret == Peek(Child, bt.base_ptr)
           saved == Peek(Child, bt.base_ptr + WordSize)
       IN /\ ops' = IF Len(bt.frames) < MaxFrames
                     THEN ops \o <<<<"peek", bt.base_ptr + WordSize>>>>
                              \o (IF ret.ok THEN <<<<"peek", bt.base_ptr>>>> ELSE <<>>)
                     ELSE ops
          /\ IF ret.ok /\ saved.ok
             THEN /\ bt' = [bt EXCEPT !.instruction_ptr = ret.val,
                                      !.base_ptr = saved.val]
                  /\ pc' = "bt_resolve"
                  /\ UNCHANGED out
             ELSE /\ pc' = "loop_end"
                  /\ out' = "read error"
                  /\ UNCHANGED bt
    /\ UNCHANGED <<upVars, mapVars, lbVars, target, inferior, break_point, procs, nextPid, newInf, rip,
                   status, exec, stop0, resolved, stepSt, cmd>>

\* print_backtrace, second half of its loop: the return address and the
\* saved frame base are read.  A failed read ends print_backtrace with an
\* error, which the Backtrace arm drops.
BtRead ==
    /\ pc = "bt_read"
    /\ LET ret == Peek(Child, bt.base_ptr + WordSize)
           saved == Peek(Child, bt.base_ptr)
       IN /\ ops' = IF Len(bt.frames) < MaxFrames
                     THEN ops \o <<<<"peek", bt.base_ptr + WordSize>>>>
                              \o (IF ret.ok THEN <<<<"peek", bt.base_ptr>>>> ELSE <<>>)
                     ELSE ops
          /\ IF ret.ok /\ saved.ok
             THEN /\ bt' = [bt EXCEPT !.instruction_ptr = ret.val,
                                      !.base_ptr = saved.val]
                  /\ pc' = "bt_resolve"
                  /\ UNCHANGED out
             ELSE /\ pc' = "loop_end"
                  /\ out' = "read error"
                  /\ UNCHANGED bt
    /\ UNCHANGED <<upVars, mapVars, lbVars, target, inferior, break_point, procs, nextPid, newInf, rip,
                   status, exec, stop0, resolved, stepSt, cmd>>

\* insert_bp keeping the address only if the inferior took it.
insert_bp_IfInserted(addr) ==
    /\ out' = "Breakpoint at"
    /\ IF inferior = None
       THEN /\ break_point' = Append(break_point, addr)
            /\ UNCHANGED <<inferior, procs, ops>>
       ELSE LET r == insert_breakpoint(inferior, Child.mem, addr)
            IN /\ break_point' = IF r.ok THEN Append(break_point, addr)
                                 ELSE break_point
               /\ inferior' = r.inf
               /\ procs' = [procs EXCEPT ![inferior.child].mem = r.mem]
               /\ ops' = r.ops

\* Debugger::insert_bp: the address is pushed, and inserted into the inferior
\* if there is one; the result of that insertion is dropped.
insert_bp(addr) ==
    /\ break_point' = Append(break_point, addr)
    /\ out' = "Breakpoint at"
    /\ IF inferior = None
       THEN UNCHANGED <<inferior, procs, ops>>
       ELSE LET r == insert_breakpoint(inferior, Child.mem, addr)
            IN /\ inferior' = r.inf
               /\ procs' = [procs EXCEPT ![inferior.child].mem = r.mem]
               /\ ops' = r.ops

\* The Breakpoint arm.
CmdBreak(spec) ==
    /\ pc = "prompt"
    /\ LET addr == ResolveSpec(spec)
       IN IF addr = None
          THEN /\ out' = "Breakpoint on Invalid address"
               /\ UNCHANGED <<inferior, break_point, procs, ops, resolved>>
          ELSE /\ Len(break_point) < MaxBps
               /\ insert_bp(addr.val)
               /\ resolved' = resolved \cup {addr.val}
    /\ pc' = "loop_end"
    /\ cmd' = [kind |-> "Breakpoint", spec |-> spec]
    /\ UNCHANGED <<upVars, mapVars, lbVars, bt, target, nextPid, newInf, rip, status, exec, stop0, stepSt>>

\* The Quit arm: the inferior is killed and run returns.
CmdQuit ==
    /\ pc = "prompt"
    /\ IF inferior # None /\ ~KillOk(Child)
       THEN /\ pc' = "panicked"
            /\ UNCHANGED procs
       ELSE /\ pc' = "done"
            /\ procs' = IF inferior # None
                        THEN [procs EXCEPT ![inferior.child] = DeadProc] ELSE procs
    /\ ops' = IF inferior # None THEN KillOps ELSE <<>>
    /\ cmd' = [kind |-> "Quit"]
    /\ UNCHANGED <<upVars, mapVars, lbVars, bt, target, inferior, break_point, nextPid, newInf, rip, status,
                   out, exec, stop0, resolved, stepSt>>

\* The loop of Debugger::run goes round: the next command is read.
LoopAgain ==
    /\ pc = "loop_end"
    /\ pc' = "prompt"
    /\ rip' = 0
    /\ status' = None
    /\ out' = ""
    /\ ops' = <<>>
    /\ exec' = <<>>
    /\ stop0' = None
    /\ cmd' = None
    /\ stepSt' = None
    /\ bt' = None
    /\ UNCHANGED <<upVars, mapVars, lbVars, target, inferior, break_point, procs, nextPid, newInf,
                   resolved>>

Next ==
    \/ \E arg \in Args, first \in SpawnOutcomes : CmdRun(arg, first)
    \/ RunInstall
    \/ RunFail
    \/ CmdContin
    \/ ContinNoChild
    \/ ContGetregs
    \/ ContRestore
    \/ ContSetregs
    \/ ContStep
    \/ ContRearm
    \/ ContResume
    \/ ContinReport
    \/ ContFault
    \/ CmdBacktrace
    \/ BtResolve
    \/ BtRead
    \/ \E spec \in BreakSpecs : CmdBreak(spec)
    \/ CmdQuit
    \/ LoopAgain

Spec == Init /\ [][Next]_vars

\* The debugger's one thread is never held up: a backtrace that is under way
\* takes its next step.
FairSpec == Spec /\ WF_vars(BtResolve) /\ WF_vars(BtRead)

\* ------------------------------------------------------ properties

Kinds(s) == [i \in DOMAIN s |-> s[i][1]]
CountOps(kind) == Cardinality({i \in DOMAIN ops : ops[i][1] = kind})
WaitKinds(st) == IF st.kind = "Stopped" THEN <<"wait", "getregs">> ELSE <<"wait">>
StepTrapped == stepSt.kind = "Stopped" /\ stepSt.sig = "SIGTRAP"
StepOther == stepSt # None /\ ~StepTrapped

\* The requests of cont over a tracked rip - 1 up to the wait after the step.
OverBreakpoint ==
    <<"getregs", "peek", "poke", "setregs", "step">> \o WaitKinds(stepSt)
Rearm == IF StepTrapped THEN <<"peek", "poke">> ELSE <<>>
ResumeWait == <<"cont">> \o WaitKinds(status)

\* What the restore, the setregs and the re-arm of cont are made of.
ContOperands ==
    LET a == rip - 1
        aligned == align_addr_to_word(a)
        off == a - aligned
    IN /\ ops[2] = <<"peek", aligned>>
       /\ ops[3][2] = aligned
       /\ ops[3][3][off] = BpAt(a).orig_byte
       /\ ops[4] = <<"setregs", a>>
       /\ StepTrapped =>
            /\ ops[8] = <<"peek", aligned>>
            /\ ops[9][2] = aligned
            /\ ops[9][3][off] = TRAP

\* C1 (as stated): when cont returns, its requests over a tracked rip - 1 were
\* restore, setregs, step, wait, the re-arm if the step stopped by SIGTRAP,
\* cont, wait, in this order and always up to the last wait; over an untracked
\* rip - 1 they were cont and wait alone.
C1_OrderAlwaysResumes ==
    pc = "cont_ret" =>
        IF Tracked(inferior, rip - 1)
        THEN /\ Kinds(ops) = OverBreakpoint \o Rearm \o ResumeWait
             /\ ContOperands
        ELSE Kinds(ops) = <<"getregs">> \o ResumeWait

\* C1 (amended): the same order, except that a step which ended the process
\* (exited or killed by a signal) ends the sequence at the wait for the step.
C1_ContOrder ==
    pc = "cont_ret" =>
        IF Tracked(inferior, rip - 1)
        THEN /\ Kinds(ops) = OverBreakpoint \o Rearm
                               \o (IF stepSt.kind = "Stopped" THEN ResumeWait ELSE <<>>)
             /\ ContOperands
             /\ stepSt.kind # "Stopped" => status = stepSt
        ELSE /\ Kinds(ops) = <<"getregs">> \o ResumeWait
             /\ stepSt = None

\* cont has stepped over a breakpoint, written the trap again and resumed to
\* a further stop.
C1_Witness ==
    /\ pc = "cont_ret"
    /\ Tracked(inferior, rip - 1)
    /\ StepTrapped
    /\ Len(ops) = 12
    /\ status.kind = "Stopped"

\* C2: if the step over a breakpoint gives any status but a stop by SIGTRAP,
\* cont returns that status at once: no cont request follows the step and the
\* trap opcode is not written again.
C2_StepStatusReturned ==
    (pc = "cont_ret" /\ StepOther) =>
        /\ status = stepSt
        /\ CountOps("cont") = 0
        /\ CountOps("poke") = 1

\* C3: while the session waits for a command with a live inferior, an address
\* is in the breakpoint table iff the inferior's memory holds the trap opcode
\* there.
C3_EntryIffTrap ==
    (pc = "prompt" /\ inferior # None) =>
        \A a \in Addrs : Tracked(inferior, a) <=> Child.mem[a] = TRAP

\* C4: a continue from a stop at the breakpoint at A (rip = A + 1) fetches the
\* original instruction of A first, steps once, and an instruction of A that
\* completed is not run again before another address was; the trap opcode is
\* only ever fetched as the last thing before a breakpoint stop, and a further
\* stop at A means control went elsewhere and came back to A.
C4_OnePassPerHit ==
    (pc = "cont_ret" /\ stop0.cause = "trap" /\ Tracked(inferior, stop0.rip - 1)) =>
        LET A == stop0.rip - 1
            V == BpAt(A).orig_byte
        IN /\ V # TRAP
           /\ exec # <<>>
           /\ exec[1] = <<A, V>>
           /\ CountOps("step") = 1
           /\ (StepTrapped /\ Len(exec) >= 2) => exec[2][1] # A
           /\ \A i \in DOMAIN exec :
                exec[i][2] = TRAP =>
                    /\ i = Len(exec)
                    /\ i >= 2
                    /\ status = [kind |-> "Stopped", sig |-> "SIGTRAP",
                                 rip |-> exec[i][1] + 1]
           /\ (status.kind = "Stopped" /\ status.sig = "SIGTRAP" /\ status.rip = A + 1) =>
                /\ exec[Len(exec)] = <<A, TRAP>>
                /\ \E i \in 2..(Len(exec) - 1) : exec[i][1] # A

\* A continue from a breakpoint stop at A went round the loop, came back to A
\* and stopped there again.
C4_Witness ==
    /\ pc = "cont_ret"
    /\ stop0.cause = "trap"
    /\ Tracked(inferior, stop0.rip - 1)
    /\ status.kind = "Stopped"
    /\ status.sig = "SIGTRAP"
    /\ status.rip = stop0.rip
    /\ Len(exec) >= 3

\* Every entry of a breakpoint table records, under its own address, the byte
\* the program has there, which is not the trap opcode.
TableSound(inf) ==
    \A a \in DOMAIN inf.breakpoints :
        /\ inf.breakpoints[a].addr = a
        /\ inf.breakpoints[a].orig_byte = Image(target)[a]
        /\ inf.breakpoints[a].orig_byte # TRAP

\* A Breakpoint command whose address the live inferior tracks already.
SecondInsert ==
    /\ pc = "prompt"
    /\ inferior # None
    /\ cmd'.kind = "Breakpoint"
    /\ ResolveSpec(cmd'.spec) # None
    /\ Tracked(inferior, ResolveSpec(cmd'.spec).val)

\* C5: insert_breakpoint on an address the inferior tracks already reads and
\* writes no memory and leaves the table as it was; the table has one entry
\* per address, whose saved byte is the byte from before the first insertion,
\* never the trap opcode; Inferior::new patches each distinct configured
\* address once.
C5_InsertIdempotent ==
    /\ [](/\ inferior # None => TableSound(inferior)
          /\ newInf # None => TableSound(newInf)
          /\ (pc = "run_spawned" /\ newInf # None) =>
                /\ CountOps("poke") = Cardinality(Range(break_point))
                /\ DOMAIN newInf.breakpoints = Range(break_point))
    /\ [][SecondInsert => (/\ ops' = <<>>
                           /\ inferior' = inferior
                           /\ procs' = procs)]_vars

\* A Breakpoint command has just been carried out on an address the live
\* inferior tracked before, twice in the configured list by now.
C5_Witness ==
    /\ pc = "loop_end"
    /\ cmd.kind = "Breakpoint"
    /\ inferior # None
    /\ ResolveSpec(cmd.spec) # None
    /\ Tracked(inferior, ResolveSpec(cmd.spec).val)
    /\ ops = <<>>
    /\ \E i, j \in DOMAIN break_point :
         i # j /\ break_point[i] = break_point[j]
                /\ break_point[i] = ResolveSpec(cmd.spec).val

\* insert_breakpoint, restore and re-arm on the program image, at address a.
RoundTripAt(a) ==
    LET m0 == Image(target)
        i == insert_breakpoint([kind |-> "Inferior", child |-> 1,
                                breakpoints |-> <<>>], m0, a)
        V == i.inf.breakpoints[a].orig_byte
        r == write_byte(i.mem, a, V)
        t == write_byte(r.mem, a, TRAP)
    IN /\ i.ok /\ r.ok /\ t.ok
       /\ V = m0[a]
       /\ i.mem = [m0 EXCEPT ![a] = TRAP]
       /\ r.mem = m0
       /\ t.mem = i.mem

\* C6: the byte V of address A, at any offset in its word, is replaced by the
\* trap opcode by insert_breakpoint, is V again after the restore of cont, and
\* is the trap opcode again after the re-arm, the table entry recording V
\* throughout.
C6_RoundTrip ==
    /\ (pc = "prompt" /\ nextPid = 1 /\ break_point = <<>>) =>
          \A off \in Offsets : RoundTripAt(WordSize + off)
    /\ (/\ pc = "loop_end" /\ cmd.kind = "Breakpoint" /\ inferior # None
        /\ CountOps("poke") = 1 /\ Tracked(inferior, ResolveSpec(cmd.spec).val)) =>
          LET a == ResolveSpec(cmd.spec).val
          IN /\ Child.mem[a] = TRAP
             /\ BpAt(a).orig_byte = Image(target)[a]
    /\ pc = "cont_setregs" =>
          /\ Child.mem[rip - 1] = Image(target)[rip - 1]
          /\ BpAt(rip - 1).orig_byte = Image(target)[rip - 1]
    /\ (pc = "cont_resume" /\ stepSt # None /\ StepTrapped) =>
          /\ Child.mem[rip - 1] = TRAP
          /\ BpAt(rip - 1).orig_byte = Image(target)[rip - 1]
    /\ pc \in {"cont_setregs", "cont_rearm", "cont_resume"} =>
          \A a \in Addrs \ {rip - 1} :
              Child.mem[a] = IF Tracked(inferior, a) /\ Child.mem[a] = TRAP
                             THEN TRAP ELSE Image(target)[a]

\* cont has restored the byte of a breakpoint that is not at the start of its
\* word, stepped, and written the trap opcode again.
C6_Witness ==
    /\ pc = "cont_resume"
    /\ stepSt # None
    /\ StepTrapped
    /\ (rip - 1) % WordSize # 0
    /\ Child.mem[rip - 1] = TRAP
    /\ CountOps("poke") = 2

\* C7: when Inferior::new succeeds, every configured address is in the new
\* inferior's table with the trap opcode in its memory, and the process still
\* stands at its entry stop: no instruction has run, nor has one when the Run
\* arm goes on to continue.
C7_AllInsertedAtSpawn ==
    /\ (pc = "run_spawned" /\ newInf # None) =>
          LET p == procs[newInf.child]
          IN /\ \A i \in DOMAIN break_point :
                   /\ Tracked(newInf, break_point[i])
                   /\ p.mem[break_point[i]] = TRAP
             /\ p.st = "stopped" /\ p.cause = "exec" /\ p.rip = Entry.rip
    /\ (pc = "contin" /\ cmd.kind = "Run") =>
          /\ \A i \in DOMAIN break_point :
                /\ Tracked(inferior, break_point[i])
                /\ Child.mem[break_point[i]] = TRAP
          /\ Child.st = "stopped" /\ Child.cause = "exec" /\ Child.rip = Entry.rip

\* Inferior::new has succeeded with two distinct addresses configured.
C7_Witness ==
    /\ pc = "run_spawned"
    /\ newInf # None
    /\ Cardinality(Range(break_point)) = 2
    /\ \A a \in Range(break_point) : procs[newInf.child].mem[a] = TRAP

\* C8: the configured addresses are exactly the addresses breakpoint specs
\* resolved to so far.
C8_ConfiguredIsHistory == Range(break_point) = resolved

\* Two addresses have been configured, one refused by the live inferior, and
\* the inferior has been started a second time.
C8_Witness ==
    /\ Cardinality(resolved) = 2
    /\ \E a \in resolved : ~Mapped(a)
    /\ nextPid > 2
    /\ pc = "prompt"

\* C9: at most one child started by the session is alive.
C9_AtMostOneAlive == Cardinality(AliveChildren) <= 1

\* C10: Run kills the inferior it finds before it spawns, and after a failed
\* spawn the session holds no inferior.
C10_KillThenSpawn ==
    /\ (pc = "run_spawned" /\ inferior # None) => ~Live(Child)
    /\ (pc = "loop_end" /\ cmd.kind = "Run" /\ out = "Error starting subprocess") =>
          inferior = None

\* C11: once a command is through, the session holds an inferior only if
\* that process is stopped, and after a continue (of its own or of run) it
\* holds one iff cont returned Stopped, the Status of the very process it
\* keeps; contin keeps the same inferior on Stopped and drops it on Exited
\* and Signaled, also when these come from the step inside cont.
C11_InferiorIffStopped ==
    /\ []((pc \in {"prompt", "loop_end"} /\ inferior # None) =>
            Child.st = "stopped")
    /\ []((pc = "loop_end" /\ cmd.kind \in {"Run", "Contin"} /\ status # None) =>
            /\ inferior # None <=> status.kind = "Stopped"
            /\ inferior # None =>
                  status = [kind |-> "Stopped", sig |-> Child.sig, rip |-> Child.rip])
    /\ [][pc = "cont_ret" =>
            inferior' = IF status.kind = "Stopped" THEN inferior ELSE None]_vars

\* A continue whose step over a breakpoint ended the process by a signal has
\* left the session without inferior.
C11_Witness ==
    /\ pc = "loop_end"
    /\ cmd.kind = "Contin"
    /\ stepSt # None
    /\ status.kind = "Signaled"
    /\ status = stepSt
    /\ inferior = None

\* The instructions run since the command began met no planted trap.
NoBreakpointReached == \A i \in DOMAIN exec : exec[i][2] # TRAP

\* C12: when run starts the target that exits with the code c it is given
\* and no breakpoint is reached, the continue of run returns Exited(c), and the
\* session is left without inferior.
C12_ImmediateExit ==
    (/\ pc \in {"cont_ret", "loop_end"} /\ cmd.kind = "Run" /\ status # None
     /\ LastOp(target) = Op.ret /\ NoBreakpointReached) =>
        /\ status = [kind |-> "Exited", code |-> cmd.arg]
        /\ pc = "loop_end" =>
              /\ inferior = None
              /\ out = "Child exited (status)"

\* A run without breakpoints of the target exiting with a code other than 0
\* is through.
C12_Witness ==
    /\ pc = "loop_end"
    /\ cmd.kind = "Run"
    /\ break_point = <<>>
    /\ status.kind = "Exited"
    /\ status.code = cmd.arg
    /\ cmd.arg > 0
    /\ inferior = None

\* C13: without inferior, continue and backtrace print that there is no
\* child process: no request is issued, the session neither panics nor ends,
\* and inferior, configured breakpoints and processes stay as they are.
C13_NoProcessIsUserError ==
    /\ [][(inferior = None /\ cmd'.kind \in {"Contin", "Backtrace"}) =>
            /\ pc' \in {"contin", "loop_end"}
            /\ ops' = <<>>
            /\ inferior' = None
            /\ break_point' = break_point
            /\ procs' = procs
            /\ target' = target]_vars
    /\ []((/\ pc = "loop_end" /\ cmd.kind \in {"Contin", "Backtrace"}
            /\ inferior = None /\ status = None /\ bt = None) =>
              out = "No child process now")

\* A continue has been refused after the inferior of an earlier run was gone,
\* with a breakpoint configured.
C13_Witness ==
    /\ pc = "loop_end"
    /\ cmd.kind = "Contin"
    /\ inferior = None
    /\ status = None
    /\ out = "No child process now"
    /\ nextPid > 1
    /\ break_point # <<>>

Resolves(addr) ==
    get_line_from_addr(addr) # None /\ get_function_from_addr(addr) # None

\* Frame f is what the symbol data says of the place it was printed for.
FrameResolved(f) ==
    /\ Resolves(f.pc)
    /\ f.func = get_function_from_addr(f.pc).name
    /\ f.line = get_line_from_addr(f.pc).number

\* <<pc, frame base>> is where the walk gets from frame f.
Caller(f) ==
    <<Peek(Child, f.bp + WordSize).val, Peek(Child, f.bp).val>>

\* The frames printed follow the chain of saved frame bases from the
\* registers of the inferior, each resolved, and the walk stands where the
\* last of them leads.
WalkFollowsChain ==
    LET frames == bt.frames
        n == Len(frames)
    IN /\ \A i \in 1..n : FrameResolved(frames[i])
       /\ n >= 1 => <<frames[1].pc, frames[1].bp>> = <<Child.rip, Child.rbp>>
       /\ \A i \in 1..(n - 1) :
            /\ frames[i].func # MainName
            /\ <<frames[i + 1].pc, frames[i + 1].bp>> = Caller(frames[i])

WalkStoppedUnresolved ==
    /\ pc = "loop_end"
    /\ cmd.kind = "Backtrace"
    /\ out \in {"No line information found", "No function information found"}

\* C14: a walk that comes to a pc without line or without function stops
\* there without error, and the frames printed are the frames of the chain
\* before that pc, all of them and only them.
C14_StopsAtUnresolved ==
    /\ bt # None => WalkFollowsChain
    /\ WalkStoppedUnresolved =>
          LET n == Len(bt.frames)
          IN /\ ~Resolves(bt.instruction_ptr)
             /\ n < MaxFrames
             /\ <<bt.instruction_ptr, bt.base_ptr>> =
                   IF n = 0 THEN <<Child.rip, Child.rbp>> ELSE Caller(bt.frames[n])
             /\ out = "No line information found" <=>
                   get_line_from_addr(bt.instruction_ptr) = None
    /\ bt # None => pc \in {"bt_resolve", "bt_read", "loop_end"}

\* A walk has stopped at a return address without function after a frame it
\* could resolve.
C14_Witness ==
    /\ WalkStoppedUnresolved
    /\ Len(bt.frames) >= 1
    /\ get_line_from_addr(bt.instruction_ptr) # None

\* C15: every backtrace walk comes to an end, whatever the registers and the
\* stack of the inferior are.
C15_WalkTerminates == (pc = "bt_resolve") ~> (pc = "loop_end")

\* C16: no step of a backtrace command changes the inferior the session
\* holds, its breakpoint table, the configured breakpoints, or the memory and
\* the registers of any process, however the walk ends; the only requests
\* are reads.
C16_BacktraceChangesNothing ==
    /\ [][(cmd.kind = "Backtrace" \/ cmd'.kind = "Backtrace") =>
            /\ inferior' = inferior
            /\ break_point' = break_point
            /\ procs' = procs
            /\ pc' # "panicked"]_vars
    /\ [](cmd.kind = "Backtrace" =>
            \A i \in DOMAIN ops : ops[i][1] \in {"getregs", "peek"})

\* A walk has ended on a memory read error, in an inferior with a breakpoint
\* planted.
C16_Witness ==
    /\ pc = "loop_end"
    /\ cmd.kind = "Backtrace"
    /\ out = "read error"
    /\ inferior # None
    /\ DOMAIN inferior.breakpoints # {}
    /\ Len(bt.frames) >= 1

\* The first wait of the run under way found something else than the stop
\* by SIGTRAP.
FirstWaitOther ==
    cmd.kind = "Run" /\ cmd.first \in {"othersig", "exited", "killed"}

\* C17: when the first wait on the new child reports anything but a stop by
\* SIGTRAP, Inferior::new returns None after the spawn and that wait alone,
\* with no breakpoint written into the child; run prints the failure and the
\* session goes back to its prompt.
C17_UnexpectedFirstStop ==
    /\ (pc = "run_spawned" /\ FirstWaitOther) =>
          /\ newInf = None
          /\ Kinds(ops) = <<"spawn", "wait">>
                             \o (IF cmd.first = "othersig" THEN <<"getregs">> ELSE <<>>)
    /\ FirstWaitOther =>
          /\ pc \in {"run_spawned", "loop_end"}
          /\ pc = "loop_end" => out = "Error starting subprocess"
          /\ CountOps("poke") = 0

\* A run with a breakpoint configured has found its child stopped by another
\* signal and has reported the failure.
C17_Witness ==
    /\ pc = "loop_end"
    /\ cmd.kind = "Run"
    /\ cmd.first = "othersig"
    /\ break_point # <<>>
    /\ newInf = None
    /\ out = "Error starting subprocess"

\* insert_breakpoint(a) on the inferior of the session cannot go through.
Refused(a) == ~Tracked(inferior, a) /\ ~Writable(align_addr_to_word(a))

\* A Breakpoint command on an address the live inferior cannot take.
RefusedInsert ==
    /\ pc = "prompt"
    /\ inferior # None
    /\ cmd'.kind = "Breakpoint"
    /\ ResolveSpec(cmd'.spec) # None
    /\ Refused(ResolveSpec(cmd'.spec).val)

\* C18: insert_breakpoint(A) on a word that cannot be read, or cannot be
\* written, returns an error and leaves the memory and the table of the
\* inferior as they were; A is never tracked; the session goes on.
C18_FailedInsertLeavesNoTrace ==
    /\ []((inferior # None /\ Child.st = "stopped") =>
            /\ \A a \in DOMAIN inferior.breakpoints :
                   Writable(align_addr_to_word(a))
            /\ \A a \in resolved :
                   Refused(a) =>
                     LET r == insert_breakpoint(inferior, Child.mem, a)
                     IN /\ ~r.ok
                        /\ r.inf = inferior
                        /\ r.mem = Child.mem
                        /\ Mapped(a) => Child.mem[a] = Image(target)[a])
    /\ [][RefusedInsert => (/\ inferior' = inferior
                            /\ procs' = procs
                            /\ pc' = "loop_end"
                            /\ \A i \in DOMAIN ops' : ops'[i][1] \in {"peek", "poke"})]_vars

\* The live inferior has refused a breakpoint on the word that cannot be
\* written.
C18_Witness ==
    /\ pc = "loop_end"
    /\ cmd.kind = "Breakpoint"
    /\ inferior # None
    /\ ResolveSpec(cmd.spec) # None
    /\ Mapped(ResolveSpec(cmd.spec).val)
    /\ Refused(ResolveSpec(cmd.spec).val)
    /\ Kinds(ops) = <<"peek", "poke">>

\* ------------------------------------------------ Inferior::wait alone

\* The signals a wait result can carry.
WaitSignals == {"SIGTRAP", "SIGSEGV", "SIGKILL", "SIGSTOP"}

\* nix's WaitStatus, the pid left out: what waitpid can return.
WaitResults ==
    [kind : {"Exited"}, code : Args]
        \cup [kind : {"Signaled", "Stopped", "PtraceEvent"}, sig : WaitSignals]
        \cup [kind : {"PtraceSyscall", "Continued", "StillAlive"}]

\* One call of Inferior::wait about to happen: cmd holds what waitpid will
\* return, rip what getregs would.
WaitInit ==
    /\ pc = "wait_call"
    /\ cmd \in [kind : {"Wait"}, ws : WaitResults]
    /\ rip \in Addrs
    /\ target \in Targets
    /\ inferior = None
    /\ break_point = <<>>
    /\ procs = [pid \in Pids |-> DeadProc]
    /\ nextPid = 1
    /\ newInf = None
    /\ status = None
    /\ stepSt = None
    /\ out = ""
    /\ ops = <<>>
    /\ exec = <<>>
    /\ stop0 = None
    /\ resolved = {}
    /\ bt = None
    /\ MapOff
    /\ LbOff
    /\ UpOff

\* Inferior::wait returning Ok(Status): waitpid, getregs on a stop.
WaitReturn ==
    /\ pc = "wait_call"
    /\ wait(cmd.ws, rip).kind # "panic"
    /\ status' = wait(cmd.ws, rip)
    /\ ops' = IF cmd.ws.kind = "Stopped"
              THEN <<<<"wait">>, <<"getregs">>>> ELSE <<<<"wait">>>>
    /\ pc' = "wait_ret"
    /\ UNCHANGED <<upVars, mapVars, lbVars, cmd, target, inferior, break_point, procs, nextPid, newInf, rip,
                   stepSt, out, exec, stop0, resolved, bt>>

\* Inferior::wait on the `other` arm: the panic.
WaitPanic ==
    /\ pc = "wait_call"
    /\ wait(cmd.ws, rip).kind = "panic"
    /\ ops' = <<<<"wait">>>>
    /\ out' = "waitpid returned unexpected status"
    /\ pc' = "panicked"
    /\ UNCHANGED <<upVars, mapVars, lbVars, cmd, target, inferior, break_point, procs, nextPid, newInf, rip,
                   status, stepSt, exec, stop0, resolved, bt>>

WaitNext ==
    \/ WaitReturn
    \/ WaitPanic

WaitSpec == WaitInit /\ [][WaitNext]_vars

\* The Status the three supported kinds of wait result stand for.
Translated(ws, regs_rip) ==
    IF ws.kind = "Exited" THEN [kind |-> "Exited", code |-> ws.code]
    ELSE IF ws.kind = "Signaled" THEN [kind |-> "Signaled", sig |-> ws.sig]
    ELSE [kind |-> "Stopped", sig |-> ws.sig, rip |-> regs_rip]

\* C20: wait turns an exited, signaled or stopped wait result into
\* Exited(code), Signaled(signal) or Stopped(signal, pc), and panics on every
\* other kind; it returns no Status for another kind and waits once only.
C20_WaitTranslates ==
    /\ pc = "wait_ret" =>
          /\ cmd.ws.kind \in {"Exited", "Signaled", "Stopped"}
          /\ status = Translated(cmd.ws, rip)
    /\ pc = "panicked" =>
          /\ cmd.ws.kind \notin {"Exited", "Signaled", "Stopped"}
          /\ status = None
    /\ pc # "wait_call" =>
          /\ CountOps("wait") = 1
          /\ (pc = "wait_ret") = (cmd.ws.kind \in {"Exited", "Signaled", "Stopped"})

\* An event wait does not support has made it panic.
C20_Witness ==
    /\ pc = "panicked"
    /\ cmd.ws.kind = "PtraceEvent"
    /\ status = None
    /\ CountOps("wait") = 1

\* C19: when the session ends on a fatal error, the inferior it held has
\* been killed.
C19_FatalKillsInferior ==
    (pc = "panicked" /\ inferior # None) => ~Live(Child)

\* ------------------------------------------------ Inferior::kill alone

\* An Inferior whose child the first wait is about to find stopped, exited or
\* killed, anywhere in its program.
KillInit ==
    /\ pc = "kill_wait"
    /\ target \in Targets
    /\ inferior = [kind |-> "Inferior", child |-> 1, breakpoints |-> <<>>]
    /\ \E arg \in Args, first \in SpawnOutcomes \ {"execfail"}, at \in Addrs :
          /\ cmd = [kind |-> "Kill", arg |-> arg, first |-> first]
          /\ procs = [pid \in Pids |->
                        IF pid = 1
                        THEN [SpawnedProc(target, arg, first) EXCEPT !.rip = at]
                        ELSE DeadProc]
    /\ nextPid = 2
    /\ break_point = <<>>
    /\ newInf = None
    /\ rip = 0
    /\ status = None
    /\ stepSt = None
    /\ out = ""
    /\ ops = <<>>
    /\ exec = <<>>
    /\ stop0 = None
    /\ resolved = {}
    /\ bt = None
    /\ MapOff
    /\ LbOff
    /\ UpOff

\* Inferior::wait on the child: an ended child is reaped by it.
KillWait ==
    /\ pc = "kill_wait"
    /\ status' = WaitStatus(Child)
    /\ procs' = [procs EXCEPT ![inferior.child] = Reaped(Child)]
    /\ ops' = WaitOps(Child)
    /\ pc' = "kill_call"
    /\ UNCHANGED <<upVars, mapVars, lbVars, cmd, target, inferior, break_point, nextPid, newInf, rip, stepSt,
                   out, exec, stop0, resolved, bt>>

\* Inferior::kill on a child that is there: SIGKILL, and the wait that reaps.
KillReturn ==
    /\ pc = "kill_call"
    /\ KillOk(Child)
    /\ procs' = [procs EXCEPT ![inferior.child] = DeadProc]
    /\ ops' = ops \o KillOps
    /\ pc' = "kill_ret"
    /\ UNCHANGED <<upVars, mapVars, lbVars, cmd, target, inferior, break_point, nextPid, newInf, rip, status,
                   stepSt, out, exec, stop0, resolved, bt>>

\* Inferior::kill on a child that is gone: Child::kill has not seen the reaping
\* (waitpid was called past it), signals the pid and gets an error; expect
\* panics.
KillPanic ==
    /\ pc = "kill_call"
    /\ ~KillOk(Child)
    /\ ops' = ops \o <<<<"kill">>>>
    /\ out' = "Error killing inferior"
    /\ pc' = "panicked"
    /\ UNCHANGED <<upVars, mapVars, lbVars, cmd, target, inferior, break_point, procs, nextPid, newInf, rip,
                   status, stepSt, exec, stop0, resolved, bt>>

KillNext ==
    \/ KillWait
    \/ KillReturn
    \/ KillPanic

KillSpec == KillInit /\ [][KillNext]_vars

\* C21: kill on a child that has exited and been reaped by an earlier wait
\* returns normally.
C21_KillSafeOnReaped ==
    (pc \in {"kill_ret", "panicked"} /\ status.kind \in {"Exited", "Signaled"})
        => pc = "kill_ret"

\* C22: once quit has ended the session, no child the session started is
\* alive.
C22_QuitLeavesNoChild ==
    pc = "done" => AliveChildren = {}

\* The three readings of a breakpoint spec: a raw address is written with a
\* star before it, a line number in decimal digits, anything is a name.
AsRawAddress(spec) ==
    IF spec # <<>> /\ spec[1] = "*" THEN parse_address(Tail(spec)) ELSE None
AsLine(spec) ==
    IF ParseUsize(spec) # None THEN get_addr_for_line(ParseUsize(spec).val) ELSE None
AsFunction(spec) == get_addr_for_function(spec)

\* The first of the three readings, in this order, that yields an address.
FirstReading(spec) ==
    CASE AsRawAddress(spec) # None -> AsRawAddress(spec)
      [] AsLine(spec) # None -> AsLine(spec)
      [] OTHER -> AsFunction(spec)

\* C23: the breakpoint command takes its spec for a raw address, else for a
\* line number, else for a function name; the first of these that yields an
\* address gives the breakpoint, and the spec is reported invalid only when
\* none does.
C23_ResolutionOrder ==
    (pc = "loop_end" /\ cmd.kind = "Breakpoint") =>
        LET addr == FirstReading(cmd.spec)
        IN IF addr = None
           THEN /\ out = "Breakpoint on Invalid address"
                /\ ops = <<>>
           ELSE /\ out = "Breakpoint at"
                /\ break_point # <<>>
                /\ break_point[Len(break_point)] = addr.val
                /\ addr.val \in resolved

\* A name that could be read as hexadecimal digits has been resolved as the
\* function it names.
C23_Witness ==
    /\ pc = "loop_end"
    /\ cmd.kind = "Breakpoint"
    /\ cmd.spec = <<"f">>
    /\ break_point # <<>>
    /\ break_point[Len(break_point)] = Entry.loopTo
    /\ parse_address(cmd.spec) # None

\* C24: after a breakpoint command that resolved its spec while an inferior
\* is live, the trap opcode is in the inferior's memory at the address.
C24_ArmedAtOnce ==
    (/\ pc = "loop_end"
     /\ cmd.kind = "Breakpoint"
     /\ out = "Breakpoint at"
     /\ inferior # None) =>
        LET a == break_point[Len(break_point)]
        IN Mapped(a) /\ Child.mem[a] = TRAP

\* write_byte(a, val) on memory m changes the byte at a and no other, and
\* returns the byte that was there.
OneByte(m, a, val) ==
    LET w == write_byte(m, a, val)
    IN /\ w.ok
       /\ w.orig = m[a]
       /\ w.mem = [m EXCEPT ![a] = val]

\* Memory m differs from the program only by trap opcodes at addresses that
\* inf tracks.
OnlyTraps(inf, m) ==
    \A a \in Addrs : m[a] # Image(target)[a] => (Tracked(inf, a) /\ m[a] = TRAP)

\* C25: the memory of the inferior differs from the program it runs only at
\* tracked addresses, and there only by the trap opcode; write_byte, at each
\* of the eight offsets of a word, changes the one byte and returns the byte
\* it replaced.
C25_OnlyBreakpointBytes ==
    /\ (inferior # None /\ Child.st = "stopped") => OnlyTraps(inferior, Child.mem)
    /\ (pc = "run_spawned" /\ newInf # None) =>
          /\ OnlyTraps(newInf, procs[newInf.child].mem)
          /\ \A off \in Offsets :
                /\ OneByte(procs[newInf.child].mem, WordSize + off, TRAP)
                /\ OneByte(procs[newInf.child].mem, WordSize + off,
                           Image(target)[WordSize + off])
    /\ (pc = "prompt" /\ nextPid = 1) =>
          \A off \in Offsets : \A val \in {0, TRAP, 255} :
              OneByte(Image(target), WordSize + off, val)

\* cont has put the original byte back at one breakpoint while another
\* breakpoint of the same word keeps its trap opcode.
C25_Witness ==
    /\ pc = "cont_setregs"
    /\ Child.mem[rip - 1] = Image(target)[rip - 1]
    /\ \E a \in DOMAIN inferior.breakpoints :
          /\ a # rip - 1
          /\ align_addr_to_word(a) = align_addr_to_word(rip - 1)
          /\ Child.mem[a] = TRAP

\* The walk has ended by printing a frame, which only main ends it by.
WalkEndedAtMain ==
    /\ pc = "loop_end"
    /\ cmd.kind = "Backtrace"
    /\ out = "frame"

\* The reads that lead from the first of the frames to the last: for each
\* frame but the last the word above its base, then the word at its base.
ChainReads(frames) ==
    [i \in 1..(2 * (Len(frames) - 1)) |->
        IF i % 2 = 1 THEN <<"peek", frames[(i + 1) \div 2].bp + WordSize>>
        ELSE <<"peek", frames[i \div 2].bp>>]

\* C26: a walk whose frames all resolve reports the frames of the chain of
\* frame bases in order from the pc of the inferior, the next pc read at
\* frame base + 8 and the next frame base at the frame base, and ends with
\* the first frame of main, reading nothing beyond it.
C26_ChainUpToMain ==
    /\ bt # None =>
          /\ WalkFollowsChain
          /\ \A i \in DOMAIN bt.frames :
                bt.frames[i].func = MainName =>
                    (i = Len(bt.frames) /\ pc = "loop_end")
    /\ (pc = "bt_resolve" /\ Len(bt.frames) < MaxFrames) =>
          <<bt.instruction_ptr, bt.base_ptr>> =
              IF bt.frames = <<>> THEN <<Child.rip, Child.rbp>>
              ELSE Caller(bt.frames[Len(bt.frames)])
    /\ WalkEndedAtMain =>
          LET n == Len(bt.frames)
          IN /\ n >= 1
             /\ bt.frames[n].func = MainName
             /\ <<bt.instruction_ptr, bt.base_ptr>> = <<bt.frames[n].pc, bt.frames[n].bp>>
             /\ ops = <<<<"getregs">>>> \o ChainReads(bt.frames)

\* A walk over three frames has ended at main.
C26_Witness ==
    /\ WalkEndedAtMain
    /\ Len(bt.frames) = 3
    /\ bt.frames[3].func = MainName
    /\ bt.frames[1].func # MainName
    /\ Len(ops) = 5

\* C27: after a breakpoint that the live inferior refused, a run whose child
\* comes to its stop after exec still yields an inferior.
C27_RunAfterRefusedBreakpoint ==
    (/\ pc = "run_spawned"
     /\ cmd.first = "trap"
     /\ inferior # None
     /\ \E a \in Range(break_point) : ~Tracked(inferior, a)) =>
        newInf # None

\* C28: cont moves the instruction pointer back and steps only when the stop
\* it resumes from came from a trap opcode.
C28_RewindOnlyAfterTrap ==
    pc \in {"cont_restore", "cont_setregs", "cont_step"} => stop0.cause = "trap"

\* ---------------------------------------------------- parallel_map

\* The elements of the input vectors, and the function mapped over them (the
\* closure of main: the square).
MapValues == {2, 3}
f(num) == num * num

RECURSIVE SeqsUpTo(_)
\* Every vector over MapValues of length n at most.
SeqsUpTo(n) ==
    IF n = 0 THEN {<<>>}
    ELSE SeqsUpTo(n - 1) \cup [1..n -> MapValues]

Threads == 1..MaxThreads

\* The debugger is not running.
DebuggerOff ==
    /\ pc = "off"
    /\ cmd = None
    /\ target = 1
    /\ inferior = None
    /\ break_point = <<>>
    /\ procs = [pid \in Pids |-> DeadProc]
    /\ nextPid = 1
    /\ newInf = None
    /\ rip = 0
    /\ status = None
    /\ stepSt = None
    /\ out = ""
    /\ ops = <<>>
    /\ exec = <<>>
    /\ stop0 = None
    /\ resolved = {}
    /\ bt = None

\* parallel_map has been called: the channels are there, nothing is sent.
MapInit ==
    /\ DebuggerOff
    /\ mpc = "push"
    /\ input \in SeqsUpTo(MaxInput)
    /\ num_threads \in Threads
    /\ input_vec = input
    /\ to_chan = <<>>
    /\ to_open = TRUE
    /\ back_chan = <<>>
    /\ back_senders = 1
    /\ workers = [k \in 1..num_threads |-> [at |-> "unborn", rec |-> None]]
    /\ handlers = 0
    /\ joined = 0
    /\ recvs = <<>>
    /\ output_vec = <<>>
    /\ ran = [i \in 1..Len(input) |-> <<>>]
    /\ LbOff
    /\ UpOff

\* The first loop: the last element is popped and sent with its index; when
\* the vector is empty, sender_to is dropped.
MapPush ==
    /\ mpc = "push"
    /\ IF input_vec # <<>>
       THEN LET push == [index |-> Len(input_vec) - 1,
                         value |-> input_vec[Len(input_vec)]]
            IN /\ input_vec' = SubSeq(input_vec, 1, Len(input_vec) - 1)
               /\ to_chan' = Append(to_chan, push)
               /\ UNCHANGED <<mpc, to_open>>
       ELSE /\ to_open' = FALSE
            /\ mpc' = "spawn"
            /\ UNCHANGED <<input_vec, to_chan>>
    /\ UNCHANGED <<upVars, debuggerVars, lbVars, input, num_threads, back_chan, back_senders,
                   workers, handlers, joined, recvs, output_vec, ran>>

\* The second loop: a worker is spawned with its clones of receiver_to and
\* sender_back; after the last one, sender_back and receiver_to are dropped.
MapSpawn ==
    /\ mpc = "spawn"
    /\ IF handlers < num_threads
       THEN /\ workers' = [workers EXCEPT ![handlers + 1].at = "recv"]
            /\ back_senders' = back_senders + 1
            /\ handlers' = handlers + 1
            /\ UNCHANGED mpc
       ELSE /\ back_senders' = back_senders - 1
            /\ mpc' = "join"
            /\ UNCHANGED <<workers, handlers>>
    /\ UNCHANGED <<upVars, debuggerVars, lbVars, input, num_threads, input_vec, to_chan, to_open,
                   back_chan, joined, recvs, output_vec, ran>>

\* The third loop: the handlers are joined in the order they were spawned
\* in, each once its thread has ended.
MapJoin ==
    /\ mpc = "join"
    /\ IF joined < handlers
       THEN /\ workers[joined + 1].at = "ended"
            /\ joined' = joined + 1
            /\ UNCHANGED mpc
       ELSE /\ mpc' = "collect"
            /\ UNCHANGED joined
    /\ UNCHANGED <<upVars, debuggerVars, lbVars, input, num_threads, input_vec, to_chan, to_open,
                   back_chan, back_senders, workers, handlers, recvs, output_vec,
                   ran>>

\* The place of every result being the front of the vector.
InsertAt_First(rs, index, i) == 0

RECURSIVE InsertAt(_, _, _)
\* The inner loop of the last loop, from i: the first place of rs, counted
\* from 0, whose index is not below `index`, or the length of rs.
InsertAt(rs, index, i) ==
    IF i < Len(rs) /\ rs[i + 1] < index THEN InsertAt(rs, index, i + 1) ELSE i

\* Vec::insert(i, x), i counted from 0.
VecInsert(v, i, x) == SubSeq(v, 1, i) \o <<x>> \o SubSeq(v, i + 1, Len(v))

\* The last loop: a result is received and put into recvs and output_vec at
\* the place of its index; when the channel is empty and has no sender, the
\* output vector is returned.
MapCollect ==
    /\ mpc = "collect"
    /\ IF back_chan # <<>>
       THEN LET rec == Head(back_chan)
                i == IF Len(recvs) = 0 THEN 0 ELSE InsertAt(recvs, rec.index, 0)
            IN /\ back_chan' = Tail(back_chan)
               /\ recvs' = VecInsert(recvs, i, rec.index)
               /\ output_vec' = VecInsert(output_vec, i, rec.value)
               /\ UNCHANGED mpc
       ELSE /\ back_senders = 0
            /\ mpc' = "ret"
            /\ UNCHANGED <<back_chan, recvs, output_vec>>
    /\ UNCHANGED <<upVars, debuggerVars, lbVars, input, num_threads, input_vec, to_chan, to_open,
                   back_senders, workers, handlers, joined, ran>>

\* Worker k at receiver.recv(): it takes the next Resul; when the channel is
\* empty and sender_to is gone it leaves its loop, drops its sender and ends.
WorkerRecv(k) ==
    /\ mpc # "off"
    /\ k \in DOMAIN workers
    /\ workers[k].at = "recv"
    /\ IF to_chan # <<>>
       THEN /\ workers' = [workers EXCEPT ![k] = [at |-> "send", rec |-> Head(to_chan)]]
            /\ to_chan' = Tail(to_chan)
            /\ UNCHANGED back_senders
       ELSE /\ ~to_open
            /\ workers' = [workers EXCEPT ![k] = [at |-> "ended", rec |-> None]]
            /\ back_senders' = back_senders - 1
            /\ UNCHANGED to_chan
    /\ UNCHANGED <<upVars, debuggerVars, lbVars, mpc, input, num_threads, input_vec, to_open,
                   back_chan, handlers, joined, recvs, output_vec, ran>>

\* Worker k applies f to the value it holds and sends the result back with
\* the index.
WorkerSend(k) ==
    /\ mpc # "off"
    /\ k \in DOMAIN workers
    /\ workers[k].at = "send"
    /\ LET rec == workers[k].rec
           result == f(rec.value)
       IN /\ back_chan' = Append(back_chan, [value |-> result, index |-> rec.index])
          /\ ran' = [ran EXCEPT ![rec.index + 1] = Append(@, k)]
    /\ workers' = [workers EXCEPT ![k] = [at |-> "recv", rec |-> None]]
    /\ UNCHANGED <<upVars, debuggerVars, lbVars, mpc, input, num_threads, input_vec, to_chan,
                   to_open, back_senders, handlers, joined, recvs, output_vec>>

MapMain ==
    \/ MapPush
    \/ MapSpawn
    \/ MapJoin
    \/ MapCollect

MapNext ==
    \/ MapPush
    \/ MapSpawn
    \/ MapJoin
    \/ MapCollect
    \/ \E k \in Threads : WorkerRecv(k)
    \/ \E k \in Threads : WorkerSend(k)

\* Every thread that can take a step takes one in the end.
MapSpec ==
    /\ MapInit
    /\ [][MapNext]_vars
    /\ WF_vars(MapMain)
    /\ \A k \in Threads : WF_vars(WorkerRecv(k) \/ WorkerSend(k))

\* Vec::iter().map(f): f applied to each element in place.
MapOf(v) == [i \in 1..Len(v) |-> f(v[i])]

\* C29: parallel_map with one thread or more comes to its return under every
\* interleaving, with every worker joined; what it returns has the length of
\* the input and f of the i-th input element in the i-th place; to each
\* element f was applied once, by one worker.
C29_ParallelMap ==
    /\ [](mpc = "ret" =>
            /\ output_vec = MapOf(input)
            /\ Len(output_vec) = Len(input)
            /\ \A i \in DOMAIN ran : Len(ran[i]) = 1
            /\ joined = num_threads
            /\ \A k \in DOMAIN workers : workers[k].at = "ended")
    /\ [](\A i \in DOMAIN ran : Len(ran[i]) <= 1)
    /\ [](mpc = "collect" =>
            /\ \A i \in 1..(Len(recvs) - 1) : recvs[i] < recvs[i + 1]
            /\ \A i \in DOMAIN recvs : output_vec[i] = f(input[recvs[i] + 1]))
    /\ <>(mpc = "ret")

\* parallel_map has returned the three results, the first two of which
\* different workers computed.
C29_Witness ==
    /\ mpc = "ret"
    /\ Len(input) = 3
    /\ input[1] # input[3]
    /\ num_threads = 2
    /\ ran[1] # ran[2]
    /\ output_vec = MapOf(input)

\* ------------------------------------------- balancebeam: rate limiting

\* The client IPs connections come from.
ClientIps == {"a", "b"}

Conns == 1..MaxConns

\* main before its accept loop: no client seen yet.
LbInit ==
    /\ DebuggerOff
    /\ MapOff
    /\ UpOff
    /\ max_requests_per_minute \in 0..MaxRate
    /\ hashmap = <<>>
    /\ conns = <<>>
    /\ requests = 0
    /\ clearing = [held |-> FALSE, left |-> {}]
    /\ admitted = [ip \in ClientIps |-> 0]
    /\ forwarded = [ip \in ClientIps |-> 0]

\* One turn of the accept loop for a connection from client_ip: the counter
\* of the IP is created at 0 if the IP is new, and handle_connection is
\* spawned with it.  The loop takes the locks of the hashmap, which
\* intimeclear holds while it resets.
Accept(client_ip) ==
    /\ Len(conns) < MaxConns
    /\ ~clearing.held
    /\ hashmap' = IF client_ip \in DOMAIN hashmap THEN hashmap
                  ELSE [ip \in DOMAIN hashmap \cup {client_ip} |->
                          IF ip = client_ip THEN 0 ELSE hashmap[ip]]
    /\ conns' = Append(conns, [ip |-> client_ip, at |-> "connect"])
    /\ UNCHANGED <<upVars, debuggerVars, mapVars, max_requests_per_minute, requests,
                   clearing, admitted, forwarded>>

\* handle_connection of connection c: connect_to_upstream succeeds, or fails
\* and the client gets 502.
Connect(c, ok) ==
    /\ c \in DOMAIN conns
    /\ conns[c].at = "connect"
    /\ conns' = [conns EXCEPT ![c].at = IF ok THEN "read" ELSE "closed"]
    /\ UNCHANGED <<upVars, debuggerVars, mapVars, max_requests_per_minute, hashmap,
                   requests, clearing, admitted, forwarded>>

\* read_from_stream on the client's connection: a request, a request that
\* does not parse (400, and the loop goes on), or the end of the connection.
ReadRequest(c, what) ==
    /\ c \in DOMAIN conns
    /\ conns[c].at = "read"
    /\ IF what = "eof"
       THEN /\ conns' = [conns EXCEPT ![c].at = "closed"]
            /\ UNCHANGED requests
       ELSE /\ requests < MaxReqs
            /\ requests' = requests + 1
            /\ conns' = [conns EXCEPT ![c].at =
                           IF what = "request" THEN "limit" ELSE "read"]
    /\ UNCHANGED <<upVars, debuggerVars, mapVars, max_requests_per_minute, hashmap,
                   clearing, admitted, forwarded>>

\* The Mutex of an IP's counter is held by the handler that is sending 429.
Locked(ip) == \E c \in DOMAIN conns : conns[c].ip = ip /\ conns[c].at = "deny"

\* The test after the increment letting one request more through.
OverLimit_Late(li, max) == li > max + 1

\* *li > state.max_requests_per_minute
OverLimit(li, max) == li > max

\* The limit of handle_connection: nothing when the maximum is 0; else the
\* counter is locked and incremented, and a request beyond the maximum goes
\* to its 429 with the lock still held.
Limit(c) ==
    /\ c \in DOMAIN conns
    /\ conns[c].at = "limit"
    /\ LET ip == conns[c].ip
       IN IF max_requests_per_minute # 0
          THEN /\ ~Locked(ip)
               /\ hashmap' = [hashmap EXCEPT ![ip] = @ + 1]
               /\ IF OverLimit(hashmap[ip] + 1, max_requests_per_minute)
                  THEN /\ conns' = [conns EXCEPT ![c].at = "deny"]
                       /\ UNCHANGED admitted
                  ELSE /\ conns' = [conns EXCEPT ![c].at = "forward"]
                       /\ admitted' = [admitted EXCEPT ![ip] = @ + 1]
          ELSE /\ conns' = [conns EXCEPT ![c].at = "forward"]
               /\ admitted' = [admitted EXCEPT ![ip] = @ + 1]
               /\ UNCHANGED hashmap
    /\ UNCHANGED <<upVars, debuggerVars, mapVars, max_requests_per_minute, requests,
                   clearing, forwarded>>

\* 429 is sent, handle_connection returns and the lock is released.
Deny(c) ==
    /\ c \in DOMAIN conns
    /\ conns[c].at = "deny"
    /\ conns' = [conns EXCEPT ![c].at = "closed"]
    /\ UNCHANGED <<upVars, debuggerVars, mapVars, max_requests_per_minute, hashmap,
                   requests, clearing, admitted, forwarded>>

\* The request is written to the upstream and the response read and sent to
\* the client; a failed write or read gives 502 and ends the connection.
Forward(c, how) ==
    /\ c \in DOMAIN conns
    /\ conns[c].at = "forward"
    /\ conns' = [conns EXCEPT ![c].at = IF how = "ok" THEN "read" ELSE "closed"]
    /\ forwarded' = IF how = "writefail" THEN forwarded
                    ELSE [forwarded EXCEPT ![conns[c].ip] = @ + 1]
    /\ UNCHANGED <<upVars, debuggerVars, mapVars, max_requests_per_minute, hashmap,
                   requests, clearing, admitted>>

\* intimeclear wakes up and takes the write lock of the hashmap.
ClearStart ==
    /\ ~clearing.held
    /\ clearing' = [held |-> TRUE, left |-> DOMAIN hashmap]
    /\ UNCHANGED <<upVars, debuggerVars, mapVars, max_requests_per_minute, hashmap, conns,
                   requests, admitted, forwarded>>

\* intimeclear locks the counter of one entry and sets it to 0.
ClearOne(ip) ==
    /\ clearing.held
    /\ ip \in clearing.left
    /\ ~Locked(ip)
    /\ hashmap' = [hashmap EXCEPT ![ip] = 0]
    /\ clearing' = [clearing EXCEPT !.left = @ \ {ip}]
    /\ admitted' = [admitted EXCEPT ![ip] = 0]
    /\ forwarded' = [forwarded EXCEPT ![ip] = 0]
    /\ UNCHANGED <<upVars, debuggerVars, mapVars, max_requests_per_minute, conns,
                   requests>>

\* intimeclear is through, releases the write lock and sleeps again.
ClearEnd ==
    /\ clearing.held
    /\ clearing.left = {}
    /\ clearing' = [held |-> FALSE, left |-> {}]
    /\ UNCHANGED <<upVars, debuggerVars, mapVars, max_requests_per_minute, hashmap, conns,
                   requests, admitted, forwarded>>

LbNext ==
    \/ \E ip \in ClientIps : Accept(ip)
    \/ \E c \in Conns, ok \in BOOLEAN : Connect(c, ok)
    \/ \E c \in Conns, what \in {"request", "malformed", "eof"} :
          ReadRequest(c, what)
    \/ \E c \in Conns : Limit(c)
    \/ \E c \in Conns : Deny(c)
    \/ \E c \in Conns, how \in {"ok", "writefail", "readfail"} : Forward(c, how)
    \/ ClearStart
    \/ \E ip \in ClientIps : ClearOne(ip)
    \/ ClearEnd

LbSpec == LbInit /\ [][LbNext]_vars

\* C30 (as stated): between two resets of an IP's counter, at most N
\* requests of the IP are forwarded to an upstream.
C30_AtMostNForwarded ==
    max_requests_per_minute > 0 =>
        \A ip \in ClientIps : forwarded[ip] <= max_requests_per_minute

Min(a, b) == IF a < b THEN a ELSE b

\* The handler of connection c is sending 429.
Denying(c) == c \in DOMAIN conns /\ conns[c].at = "deny"

\* C30: between two resets of an IP's counter, at most N requests of the IP
\* pass the limit, over all its connections, and what is forwarded has
\* passed it; the request that takes the counter beyond N is answered 429
\* and its connection closed, nothing of it forwarded.
C30_AtMostNAdmitted ==
    /\ [](max_requests_per_minute > 0 =>
            \A ip \in DOMAIN hashmap :
                /\ admitted[ip] <= max_requests_per_minute
                /\ admitted[ip] = Min(hashmap[ip], max_requests_per_minute))
    /\ [](\A c \in DOMAIN conns :
            conns[c].at = "deny" =>
                /\ max_requests_per_minute > 0
                /\ hashmap[conns[c].ip] > max_requests_per_minute)
    /\ [][/\ \A c \in Conns :
                Denying(c) => conns'[c].at \in {"deny", "closed"}
          /\ \A ip \in ClientIps :
                forwarded'[ip] > forwarded[ip] =>
                    \E d \in DOMAIN conns :
                        /\ conns[d].ip = ip
                        /\ conns[d].at = "forward"
                        /\ conns'[d].at # "forward"
                        /\ forwarded'[ip] = forwarded[ip] + 1]_vars

\* Of two connections of one IP, one has had its request let through and
\* the other is being answered 429.
C30_Witness ==
    /\ max_requests_per_minute > 0
    /\ \E c1, c2 \in DOMAIN conns :
          /\ conns[c1].ip = conns[c2].ip
          /\ conns[c1].at = "forward"
          /\ conns[c2].at = "deny"
          /\ admitted[conns[c1].ip] = max_requests_per_minute
          /\ hashmap[conns[c1].ip] = max_requests_per_minute + 1

\* ------------------------------------- balancebeam: connect_to_upstream

\* The addresses upstream servers are given by.
Upstreams == {"u1", "u2"}

Calls == 1..MaxCalls

\* A handler that has not entered connect_to_upstream.  stream is the entry of
\* upstream_addresses the call connected to, 0 for the error it starts
\* with; seen holds the marks the call read, and failed the entries whose
\* connection attempt failed.
IdleCall ==
    [at |-> "idle", ips |-> <<>>, dead |-> <<>>, invalidip |-> {},
     validip |-> {}, stream |-> 0, seen |-> <<>>, failed |-> {}]

\* main: every upstream of the command line starts marked alive; the same
\* address may be given more than once.
UpInit ==
    /\ DebuggerOff
    /\ MapOff
    /\ LbOff
    /\ \E n \in 1..MaxUpstreams :
         \E l \in [1..n -> Upstreams] :
            upstream_addresses = [i \in 1..n |-> [ip |-> l[i], alive |-> TRUE]]
    /\ calls = [c \in Calls |-> IdleCall]
    /\ health = [at |-> "sleep", invalidip |-> {}, validip |-> {}]

\* upstream.iter().filter(|(_, is_true)| ...): the entries with the mark
\* is_true, in the order of upstream_addresses.
Marked(upstream, is_true) ==
    SelectSeq([i \in 1..Len(upstream) |-> i],
              LAMBDA i : upstream[i].alive = is_true)

\* Some task holds the read lock of upstream_addresses.
Reading == \E c \in Calls : calls[c].at \in {"alive", "dead"}

\* The loop over ips is left and nothing is connected: the call goes on to
\* the upstreams marked dead, and past them if there is none.
AfterAlive(call) ==
    IF call.ips # <<>> THEN call
    ELSE LET dead == Marked(upstream_addresses, FALSE)
         IN [call EXCEPT !.at = IF dead = <<>> THEN "update" ELSE "dead",
                         !.dead = dead]

\* handle_connection enters connect_to_upstream, once for its connection:
\* the read lock is taken and the upstreams marked alive are collected into
\* ips.
Start(c) ==
    /\ calls[c].at = "idle"
    /\ calls' = [calls EXCEPT ![c] =
         AfterAlive([IdleCall EXCEPT
            !.at = "alive",
            !.ips = Marked(upstream_addresses, TRUE),
            !.seen = [i \in DOMAIN upstream_addresses |->
                        upstream_addresses[i].alive]])]
    /\ UNCHANGED <<debuggerVars, mapVars, lbVars, upstream_addresses, health>>

\* ips.remove(index)
Remove(ips, index) ==
    [i \in 1..(Len(ips) - 1) |-> IF i < index THEN ips[i] ELSE ips[i + 1]]

\* One turn of the loop over ips: the upstream at a random index is tried;
\* it is kept as the stream, or noted in invalidip and taken out of ips.
TryAlive(c, index, ok) ==
    /\ calls[c].at = "alive"
    /\ index \in 1..Len(calls[c].ips)
    /\ LET call == calls[c]
           entry == call.ips[index]
       IN calls' = [calls EXCEPT ![c] =
            IF ok
            THEN [call EXCEPT !.stream = entry, !.at = "update"]
            ELSE AfterAlive([call EXCEPT
                    !.invalidip = @ \cup {upstream_addresses[entry].ip},
                    !.failed = @ \cup {entry},
                    !.ips = Remove(call.ips, index)])]
    /\ UNCHANGED <<debuggerVars, mapVars, lbVars, upstream_addresses, health>>

\* One turn of the loop over the upstreams marked dead, in their order: the
\* first that accepts is kept as the stream and noted in validip.
TryDead(c, ok) ==
    /\ calls[c].at = "dead"
    /\ LET call == calls[c]
           entry == Head(call.dead)
       IN calls' = [calls EXCEPT ![c] =
            IF ok
            THEN [call EXCEPT !.stream = entry,
                              !.validip = @ \cup {upstream_addresses[entry].ip},
                              !.at = "update"]
            ELSE [call EXCEPT !.failed = @ \cup {entry},
                              !.dead = Tail(call.dead),
                              !.at = IF Tail(call.dead) = <<>> THEN "update"
                                     ELSE "dead"]]
    /\ UNCHANGED <<debuggerVars, mapVars, lbVars, upstream_addresses, health>>

\* The marks written back with the addresses of validip alone.
Remark_ValidOnly(upstream, invalidip, validip) ==
    [i \in DOMAIN upstream |->
        [upstream[i] EXCEPT !.alive = IF upstream[i].ip \in validip THEN TRUE
                                      ELSE @]]

\* for item in &mut *upstream: the mark of an address in invalidip becomes
\* false, and then that of an address in validip true.
Remark(upstream, invalidip, validip) ==
    [i \in DOMAIN upstream |->
        [upstream[i] EXCEPT !.alive =
            IF upstream[i].ip \in validip THEN TRUE
            ELSE IF upstream[i].ip \in invalidip THEN FALSE
            ELSE @]]

\* The end of connect_to_upstream: with something noted the write lock is
\* taken and the marks are written; the stream is returned and the other
\* locals are dropped.
Update(c) ==
    /\ calls[c].at = "update"
    /\ LET call == calls[c]
       IN IF call.invalidip # {} \/ call.validip # {}
          THEN /\ ~Reading
               /\ upstream_addresses' =
                    Remark(upstream_addresses, call.invalidip, call.validip)
          ELSE UNCHANGED upstream_addresses
    /\ calls' = [calls EXCEPT ![c] =
         [IdleCall EXCEPT !.at = "ret", !.stream = calls[c].stream,
                          !.seen = calls[c].seen, !.failed = calls[c].failed]]
    /\ UNCHANGED <<debuggerVars, mapVars, lbVars, health>>

\* active_check_intime wakes up and, under the read lock, asks every
\* upstream for the health check path; answered are the entries that
\* answered 200.
HealthProbe(answered) ==
    /\ health.at = "sleep"
    /\ answered \subseteq DOMAIN upstream_addresses
    /\ health' =
         [at |-> "write",
          invalidip |-> {upstream_addresses[i].ip :
                            i \in DOMAIN upstream_addresses \ answered},
          validip |-> {upstream_addresses[i].ip : i \in answered}]
    /\ UNCHANGED <<debuggerVars, mapVars, lbVars, upstream_addresses, calls>>

\* active_check_intime takes the write lock, writes the marks and sleeps.
HealthWrite ==
    /\ health.at = "write"
    /\ ~Reading
    /\ upstream_addresses' =
         Remark(upstream_addresses, health.invalidip, health.validip)
    /\ health' = [at |-> "sleep", invalidip |-> {}, validip |-> {}]
    /\ UNCHANGED <<debuggerVars, mapVars, lbVars, calls>>

UpNext ==
    \/ \E c \in Calls : Start(c)
    \/ \E c \in Calls, index \in 1..MaxUpstreams, ok \in BOOLEAN :
          TryAlive(c, index, ok)
    \/ \E c \in Calls, ok \in BOOLEAN : TryDead(c, ok)
    \/ \E c \in Calls : Update(c)
    \/ \E answered \in SUBSET (1..MaxUpstreams) : HealthProbe(answered)
    \/ HealthWrite

UpSpec == UpInit /\ [][UpNext]_vars

\* The stream of call c is decided.
Decided(c) == calls[c].at \in {"update", "ret"}

\* C31: connect_to_upstream returns the error only when the attempt on every
\* upstream, marked alive or dead, failed; it connects to an upstream marked
\* dead only when the attempt on every upstream marked alive failed; and
\* when it returns, every upstream it saw marked alive whose attempt failed
\* is marked dead, and the upstream it saw marked dead that accepted is
\* marked alive.
C31_ConnectToUpstream ==
    /\ [](\A c \in Calls :
            Decided(c) =>
                LET call == calls[c]
                    alive == {i \in DOMAIN call.seen : call.seen[i]}
                IN /\ call.stream = 0 =>
                        call.failed = DOMAIN upstream_addresses
                   /\ (call.stream # 0 /\ call.stream \notin alive) =>
                        alive \subseteq call.failed)
    /\ [][\A c \in Calls :
            (calls[c].at = "update" /\ calls'[c].at = "ret") =>
                LET call == calls[c]
                IN \A i \in DOMAIN upstream_addresses :
                     /\ (call.seen[i] /\ i \in call.failed) =>
                            ~upstream_addresses'[i].alive
                     /\ (~call.seen[i] /\ call.stream = i) =>
                            upstream_addresses'[i].alive]_vars

\* A call has returned the stream of an upstream it saw marked dead after
\* the attempt on one it saw marked alive failed; the first is now marked
\* alive and the second dead.
C31_Witness ==
    \E c \in Calls :
        /\ calls[c].at = "ret"
        /\ calls[c].stream # 0
        /\ ~calls[c].seen[calls[c].stream]
        /\ upstream_addresses[calls[c].stream].alive
        /\ \E j \in calls[c].failed :
              /\ calls[c].seen[j]
              /\ ~upstream_addresses[j].alive

====
